---- MODULE Spec2Model ----
(***************************************************************************)
(* Call signalling and session lifecycle of Pulse (push-to-talk over       *)
(* WebRTC).  The model covers the signalling service                       *)
(* (src/services/WebRTCService.ts) and the two call orchestrators that     *)
(* drive it: the CallProvider of src/context/AuthContext.tsx (variant      *)
(* "fs": status writes through updateDoc, incoming calls through           *)
(* docChanges) and the CallProvider of src/unnamed/part_001 (variant       *)
(* "rtdb": status writes through update, incoming calls through onValue).  *)
(* Both orchestrators run over one signalling store, the relay of spec     *)
(* section 6; every asynchronous function is cut at its awaits, and a      *)
(* store write takes effect when it is issued (the client applies its      *)
(* writes in issue order) while a store read returns the value at the      *)
(* moment the await resumes.                                               *)
(***************************************************************************)
EXTENDS Naturals, Integers, Sequences, FiniteSets, TLC

\* Most local candidates the transports produce in one run.
MaxCands == 2
\* Most operations (store writes, store reads, transport calls) that fail in one run.
MaxFaults == 1
\* Most hangups (endCall invocations) the users make in one run.
MaxHangups == 1
\* Most toggleTalk invocations the users make in one run.
MaxTalks == 2
MaxPresses == 3
\* Most answerCall invocations the page adds to one that is in flight.
MaxRetriggers == 1
\* The count of the monitor's CONNECTED transitions between two renders stops here.
MaxFired == 2
\* Most continuations one directly driven service instance has suspended.
MaxInFlight == 2
\* Most direct calls of service methods in one run.
MaxDriving == 4

Users == {"A", "B", "C"}
NoUser == "none"
NoCall == 0
\* The dial plans: who may place a call to whom, each pair at most once, and
\* when: at any time, only while the callee is in a connected call, or only
\* while the caller's own status is not idle.
DialOne == {<<"A", "B", "any">>}
DialBusy == {<<"A", "B", "any">>, <<"C", "B", "calleeConnected">>}
DialAgain == {<<"A", "B", "any">>, <<"B", "A", "callerEngaged">>}
DialBoth == {<<"A", "B", "any">>, <<"C", "B", "any">>}
AllDials == DialOne \cup DialBusy \cup DialAgain \cup DialBoth
CallIds == 1..2
Variants == {"fs", "rtdb"}

VARIABLES
    variant,        \* which orchestrator is deployed
    dial,           \* calls the users may still place
    faults,         \* failures that may still be injected
    hangups,        \* hangups the users may still make
    gatherLimit,    \* local candidates the transports may still produce
    nextCallId,     \* next key push(callsRef) hands out
    calls,          \* live call records of the signalling store
    history,        \* archival records, per call id
    endCalls,       \* the status writes endCall has issued, with their outcome
    callStatus,     \* React state of CallProvider, per user
    activeCall,
    incomingCall,
    closure,        \* state as of the last render: what the handlers closed over
    statusRef,      \* refs synchronised by the effects after a render
    activeCallRef,
    monitor,        \* call the active-call monitor is subscribed to
    seenAdded,      \* calls whose "added" change the incoming query has delivered
    deliveredBusy,  \* other calls the incoming listener was handed while not idle
    connectedFired, \* setCallStatus(CONNECTED) calls of the monitor since the last render
    settled,        \* how the last operation a caller awaited has settled
    talks,          \* toggleTalk invocations the users may still make
    retriggers,     \* answerCall invocations the page may still add to one in flight
    driving,        \* direct calls of service methods still to be made
    isHoldingButton, \* React state of the WalkieTalkie page, per user
    activeSpeakerId, \* activeCall.activeSpeakerId of the provider state, per user
    svc,            \* rtcRef.current, the live WebRTCService of each user
    tasks           \* suspended asynchronous continuations

vars == <<variant, dial, faults, hangups, gatherLimit, nextCallId, calls, history,
          endCalls,
          callStatus, activeCall, incomingCall, closure, statusRef,
          activeCallRef, monitor, seenAdded, deliveredBusy, connectedFired,
          settled, talks, retriggers, driving, isHoldingButton, activeSpeakerId,
          svc, tasks>>

orchVars == <<callStatus, activeCall, incomingCall, closure, statusRef,
              activeCallRef, monitor, seenAdded, deliveredBusy, connectedFired,
              settled>>
envVars == <<variant, dial, hangups, gatherLimit, nextCallId, endCalls, talks,
             retriggers, driving, isHoldingButton, activeSpeakerId>>

----------------------------------------------------------------------------
\* Sequence helpers.
Range(s) == {s[i] : i \in 1..Len(s)}

NoDup(s) == \A i, j \in 1..Len(s) : i # j => s[i] # s[j]

RECURSIVE Restrict(_, _)
Restrict(s, S) ==
    IF s = <<>> THEN <<>>
    ELSE IF Head(s) \in S THEN <<Head(s)>> \o Restrict(Tail(s), S)
         ELSE Restrict(Tail(s), S)

IsPrefix(s, t) == Len(s) <= Len(t) /\ \A i \in 1..Len(s) : s[i] = t[i]

----------------------------------------------------------------------------
\* The signalling store.

\* A path of the realtime database with no data under it.
Absent ==
    [exists |-> FALSE, callerId |-> NoUser, calleeId |-> NoUser,
     status |-> "NONE", offer |-> FALSE, answer |-> FALSE,
     activeSpeakerId |-> NoUser,
     offerCandidates |-> <<>>, answerCandidates |-> <<>>]

\* callData of createCall: set(newCallRef, callData) replaces the whole node.
CallData(caller, callee) ==
    [exists |-> TRUE, callerId |-> caller, calleeId |-> callee,
     status |-> "OFFERING", offer |-> TRUE, answer |-> FALSE,
     activeSpeakerId |-> NoUser,
     offerCandidates |-> <<>>, answerCandidates |-> <<>>]

\* update(callRef, {answer, status: "CONNECTED"}): a multi-path write that
\* creates the node when it is gone.
UpdateAnswer(rec) ==
    [rec EXCEPT !.exists = TRUE, !.answer = TRUE, !.status = "CONNECTED"]

\* update(callRef, {status}) of the realtime database.
UpdateStatus(rec, s) == [rec EXCEPT !.exists = TRUE, !.status = s]

\* update(callRef, {activeSpeakerId}) of the realtime database.
UpdateSpeaker(rec, who) == [rec EXCEPT !.exists = TRUE, !.activeSpeakerId = who]

\* The same if the two candidate lists were taken for each other.
PushCandidateCrossed(rec, list, cand) ==
    IF list = "offerCandidates"
    THEN [rec EXCEPT !.exists = TRUE, !.answerCandidates = Append(@, cand)]
    ELSE [rec EXCEPT !.exists = TRUE, !.offerCandidates = Append(@, cand)]

\* push(candidatesRef, candidate.toJSON()).
PushCandidate(rec, list, cand) ==
    IF list = "offerCandidates"
    THEN [rec EXCEPT !.exists = TRUE, !.offerCandidates = Append(@, cand)]
    ELSE [rec EXCEPT !.exists = TRUE, !.answerCandidates = Append(@, cand)]

\* historyData of cleanup: the live record, ended, without the candidate
\* lists; archivedBy notes whose cleanup wrote it.
HistoryData(rec, u) ==
    [callerId |-> rec.callerId, calleeId |-> rec.calleeId, status |-> "ENDED",
     offer |-> rec.offer, answer |-> rec.answer,
     activeSpeakerId |-> rec.activeSpeakerId, archivedBy |-> u]

\* JSON.stringify(candidate): the key of the dedup set.
JSONstringify(cand) == <<"candidate", cand>>

----------------------------------------------------------------------------
\* The WebRTCService instance.

\* new WebRTCService() followed by createPeerConnection(): a stable peer
\* connection, no media, the negotiation state reset.  logged counts the
\* console.error lines the instance has written about rejected candidates;
\* failedOn is the call record as it was when a setRemoteDescription(answer)
\* last failed (the answer listener runs again only when the record changes).
NewService ==
    [isDisposed |-> FALSE, peerConnection |-> TRUE, audioEnabled |-> FALSE,
     signalingState |-> "stable", localStream |-> FALSE,
     remoteDescriptionSet |-> FALSE, settingRemoteDescription |-> FALSE,
     candidateQueue |-> <<>>, processedCandidates |-> {},
     rtdbListeners |-> {}, iceCall |-> NoCall, iceList |-> "none",
     gathered |-> 0, applied |-> <<>>, buffered |-> <<>>, logged |-> 0,
     failedOn |-> Absent]

\* A suspended continuation: the function, the user, the await it waits at,
\* the call it works on, whether its service instance has been disposed, and
\* the activeCall its cleanupCall closed over.
Task(kind, u, pc, c, peer, n, ok, cl) ==
    [kind |-> kind, u |-> u, pc |-> pc, callId |-> c, peer |-> peer, n |-> n,
     ok |-> ok, disposed |-> FALSE, cl |-> cl]

\* The same continuation, told apart from the copies already suspended.
Fresh(t, S) ==
    [t EXCEPT !.n = CHOOSE k \in 0..Cardinality(S) :
        /\ [t EXCEPT !.n = k] \notin S
        /\ \A j \in 0..(k - 1) : [t EXCEPT !.n = j] \in S]

\* activeCall.activeSpeakerId is kept with the call it was read for: callData
\* of makeCall and the incoming call that answerCall takes over carry null,
\* and setActiveCall(null) of cleanupCall drops the copy, so a copy read for
\* another call than activeCall counts as null.
NoSpeaker == [callId |-> NoCall, id |-> NoUser]

SpeakerShown(u) ==
    IF activeCall[u] # NoCall /\ activeSpeakerId[u].callId = activeCall[u]
    THEN activeSpeakerId[u].id ELSE NoUser

\* data.activeSpeakerId of a snapshot is undefined where the store holds no
\* value: the realtime database drops a child written as null, a Firestore
\* document keeps the null.
SpeakerDefined(data) == variant # "rtdb" \/ data.activeSpeakerId # NoUser

\* The copy after the monitor of call c has handled snapshot data.
SpeakerSeen(u, c, data) ==
    IF activeCall[u] = c /\ SpeakerDefined(data)
    THEN IF data.activeSpeakerId = NoUser THEN NoSpeaker
         ELSE [callId |-> c, id |-> data.activeSpeakerId]
    ELSE activeSpeakerId[u]

----------------------------------------------------------------------------
InitDriven(plan, nFaults, nHangups, nCands, nTalks, nRetriggers, nDriving) ==
    /\ variant \in Variants
    /\ driving = nDriving
    /\ dial = plan
    /\ faults = nFaults
    /\ hangups = nHangups
    /\ gatherLimit = nCands
    /\ talks = nTalks
    /\ retriggers = nRetriggers
    /\ nextCallId = 1
    /\ calls = [c \in CallIds |-> Absent]
    /\ history = [c \in CallIds |-> <<>>]
    /\ endCalls = {}
    /\ callStatus = [u \in Users |-> "ENDED"]
    /\ activeCall = [u \in Users |-> NoCall]
    /\ incomingCall = [u \in Users |-> NoCall]
    /\ closure = [u \in Users |-> [activeCall |-> NoCall, incomingCall |-> NoCall,
                                   callStatus |-> "ENDED"]]
    /\ statusRef = [u \in Users |-> "ENDED"]
    /\ activeCallRef = [u \in Users |-> NoCall]
    /\ monitor = [u \in Users |-> NoCall]
    /\ seenAdded = [u \in Users |-> {}]
    /\ deliveredBusy = [u \in Users |-> {}]
    /\ connectedFired = [u \in Users |-> 0]
    /\ settled = [u \in Users |-> "none"]
    /\ isHoldingButton = [u \in Users |-> FALSE]
    /\ activeSpeakerId = [u \in Users |-> NoSpeaker]
    /\ svc = [u \in Users |-> NewService]
    /\ tasks = {}

\* The same with no direct calls of service methods.
InitState(plan, nFaults, nHangups, nCands, nTalks, nRetriggers) ==
    InitDriven(plan, nFaults, nHangups, nCands, nTalks, nRetriggers, 0)

\* The same with nobody talking and answerCall invoked once per incoming call.
InitWith(plan, nFaults, nHangups, nCands) ==
    InitState(plan, nFaults, nHangups, nCands, 0, 0)

----------------------------------------------------------------------------
\* Failure injection: an awaited operation succeeds, or fails while the
\* budget lasts.
Outcomes == IF faults > 0 THEN {TRUE, FALSE} ELSE {TRUE}

Charge(ok) == faults' = IF ok THEN faults ELSE faults - 1

\* The statuses on which the active-call monitor ends the call.
MonitorTerminal ==
    IF variant = "fs" THEN {"ENDED", "REJECTED", "BUSY"} ELSE {"ENDED", "REJECTED"}

\* createPeerConnection(): a new transport, the negotiation state reset.
createPeerConnection(s) ==
    IF s.isDisposed THEN s ELSE
    [s EXCEPT !.peerConnection = TRUE,
              !.signalingState = "stable",
              !.remoteDescriptionSet = FALSE,
              !.settingRemoteDescription = FALSE,
              !.candidateQueue = <<>>,
              !.processedCandidates = {},
              !.iceCall = NoCall, !.iceList = "none", !.gathered = 0,
              !.applied = <<>>, !.buffered = <<>>]

\* What cleanup() does to the continuations of the disposed instance: those
\* of makeCall and answerCall resume on a disposed service, those of the
\* answer listener find isDisposed set and the queue empty.
DisposeTasks(S, u) ==
    {IF t.u = u /\ t.kind \in {"makeCall", "answerCall"}
     THEN [t EXCEPT !.disposed = TRUE] ELSE t :
        t \in {x \in S : ~(x.u = u /\ x.kind = "applyAnswer")}}

\* WebRTCService.cleanup(callId), up to its first await: the instance is
\* disposed, and with a callId the archive-and-remove part is left suspended
\* at get(callRef).
cleanup(u, cid, rest) ==
    DisposeTasks(rest, u) \cup
    (IF cid # NoCall
     THEN {Fresh(Task("cleanup", u, "get", cid, NoUser, 0, TRUE, NoCall),
                 DisposeTasks(rest, u))}
     ELSE {})

\* cleanupCall() of the provider whose closure holds activeCall = cid: local
\* state to idle, monitor detached, service cleaned up and replaced.
cleanupCall(u, cid, rest) ==
    /\ callStatus' = [callStatus EXCEPT ![u] = "ENDED"]
    /\ activeCall' = [activeCall EXCEPT ![u] = NoCall]
    /\ incomingCall' = [incomingCall EXCEPT ![u] = NoCall]
    /\ monitor' = [monitor EXCEPT ![u] = NoCall]
    /\ statusRef' = IF variant = "rtdb"
                    THEN [statusRef EXCEPT ![u] = "ENDED"] ELSE statusRef
    /\ activeCallRef' = IF variant = "rtdb"
                        THEN [activeCallRef EXCEPT ![u] = NoCall] ELSE activeCallRef
    /\ tasks' = cleanup(u, cid, rest)
    /\ svc' = [svc EXCEPT ![u] = NewService]

----------------------------------------------------------------------------
\* makeCall and WebRTCService.createCall.  answerCall, endCall and rejectCall
\* are invoked from the rendered tree (the effects and handlers of the
\* pages), so with the closures of the latest render; makeCall is invoked by
\* the page from a timer set one second earlier, so possibly with the closure
\* of a render that is no longer the latest.

\* How the promise of makeCall or answerCall settles when its catch block has
\* run on error err: makeCall of part_001 rethrows, every other catch block
\* swallows the error.
Thrown(op, err) ==
    IF variant = "rtdb" /\ op = "makeCall" THEN err ELSE "fulfilled"

\* What a render of the provider shows.
Rendered(u) ==
    [activeCall |-> activeCall[u], incomingCall |-> incomingCall[u],
     callStatus |-> callStatus[u]]

\* makeCall up to await setupLocalMedia().
makeCall(u, callee) ==
    /\ statusRef[u] = "ENDED"
    /\ \E d \in dial :
        /\ d[1] = u /\ d[2] = callee
        /\ d[3] = "calleeConnected" => callStatus[callee] = "CONNECTED"
        /\ d[3] = "callerEngaged" => callStatus[u] # "ENDED"
        /\ dial' = dial \ {d}
    /\ tasks' = tasks \cup
          {Task("makeCall", u, "media", NoCall, callee, 0, TRUE, closure[u].activeCall)}
    /\ UNCHANGED <<activeSpeakerId, isHoldingButton, variant, endCalls, faults, hangups, gatherLimit, talks, retriggers, driving,
                   nextCallId, calls, history,
                   orchVars, svc>>

\* getUserMedia settles: on failure or disposal the catch runs cleanupCall;
\* otherwise the transport is created and createCall runs up to createOffer().
makeCallMedia(t) ==
    /\ t.kind = "makeCall" /\ t.pc = "media"
    /\ \E ok \in Outcomes :
        /\ Charge(ok)
        /\ IF t.disposed \/ ~ok
           THEN /\ cleanupCall(t.u, t.cl, tasks \ {t})
                /\ settled' = [settled EXCEPT ![t.u] =
                                  Thrown(t.kind, IF ok THEN "disposed" ELSE "media")]
                /\ UNCHANGED <<nextCallId>>
           ELSE /\ svc' = [svc EXCEPT ![t.u] =
                        [createPeerConnection(@) EXCEPT !.localStream = TRUE,
                            !.iceCall = nextCallId, !.iceList = "offerCandidates"]]
                /\ nextCallId' = nextCallId + 1
                /\ tasks' = (tasks \ {t}) \cup
                      {[t EXCEPT !.pc = "offer", !.callId = nextCallId]}
                /\ UNCHANGED <<callStatus, activeCall, incomingCall, monitor,
                               statusRef, activeCallRef, settled>>
    /\ UNCHANGED <<activeSpeakerId, isHoldingButton, variant, endCalls, dial, hangups, gatherLimit, talks, retriggers, driving, calls,
                   history, closure, seenAdded, deliveredBusy, connectedFired>>

\* createOffer and setLocalDescription settle: on a disposed instance they
\* throw; otherwise set(newCallRef, callData) is issued.
makeCallOffer(t) ==
    /\ t.kind = "makeCall" /\ t.pc = "offer"
    /\ IF t.disposed
       THEN /\ cleanupCall(t.u, t.cl, tasks \ {t})
            /\ settled' = [settled EXCEPT ![t.u] = Thrown(t.kind, "disposed")]
            /\ UNCHANGED <<calls, faults>>
       ELSE \E ok \in Outcomes :
            /\ Charge(ok)
            /\ calls' = IF ok THEN [calls EXCEPT ![t.callId] = CallData(t.u, t.peer)]
                        ELSE calls
            /\ svc' = [svc EXCEPT ![t.u].signalingState = "have-local-offer"]
            /\ tasks' = (tasks \ {t}) \cup {[t EXCEPT !.pc = "set", !.ok = ok]}
            /\ UNCHANGED <<callStatus, activeCall, incomingCall, monitor,
                           statusRef, activeCallRef, settled>>
    /\ UNCHANGED <<envVars, history, closure, seenAdded, deliveredBusy, connectedFired>>

\* set() settles: a failed write throws into the catch; otherwise the two
\* listeners are registered, and makeCall sets activeCall and OFFERING.
makeCallSet(t) ==
    /\ t.kind = "makeCall" /\ t.pc = "set"
    /\ IF ~t.ok
       THEN /\ cleanupCall(t.u, t.cl, tasks \ {t})
            /\ settled' = [settled EXCEPT ![t.u] = Thrown(t.kind, "store")]
       ELSE /\ svc' = IF t.disposed THEN svc
                      ELSE [svc EXCEPT ![t.u].rtdbListeners =
                              @ \cup {<<"call", t.callId>>, <<"answerCandidates", t.callId>>}]
            /\ activeCall' = [activeCall EXCEPT ![t.u] = t.callId]
            /\ callStatus' = [callStatus EXCEPT ![t.u] = "OFFERING"]
            /\ settled' = [settled EXCEPT ![t.u] = "fulfilled"]
            /\ tasks' = tasks \ {t}
            /\ UNCHANGED <<incomingCall, monitor, statusRef, activeCallRef>>
    /\ UNCHANGED <<envVars, faults, calls, history, closure, seenAdded, deliveredBusy,
                   connectedFired>>

\* onicecandidate of the live transport: the local candidate is pushed to the
\* list of the session's direction.
onicecandidate(u) ==
    /\ svc[u].iceCall # NoCall
    /\ svc[u].signalingState # "stable" \/ svc[u].remoteDescriptionSet
    /\ gatherLimit > 0
    /\ gatherLimit' = gatherLimit - 1
    /\ \E cand \in 1..(svc[u].gathered + 1), ok \in Outcomes :
        /\ Charge(ok)
        /\ calls' = IF ok
                    THEN [calls EXCEPT ![svc[u].iceCall] =
                            PushCandidate(@, svc[u].iceList, cand)]
                    ELSE calls
    /\ svc' = [svc EXCEPT ![u].gathered = @ + 1]
    /\ UNCHANGED <<activeSpeakerId, isHoldingButton, variant, endCalls, dial, hangups, talks, retriggers, driving, nextCallId, history,
                   orchVars, tasks>>

----------------------------------------------------------------------------
\* answerCall and WebRTCService.answerCall.

\* answerCall up to await setupLocalMedia().
answerCall(u) ==
    /\ closure[u] = Rendered(u)
    /\ closure[u].incomingCall # NoCall
    /\ IF \E t \in tasks : t.u = u /\ t.kind = "answerCall"
       THEN retriggers > 0 /\ retriggers' = retriggers - 1
       ELSE UNCHANGED retriggers
    /\ tasks' = tasks \cup
          {Fresh(Task("answerCall", u, "media", closure[u].incomingCall, NoUser, 0, TRUE,
                      closure[u].activeCall), tasks)}
    /\ UNCHANGED <<activeSpeakerId, isHoldingButton, variant, dial, hangups, gatherLimit, nextCallId, endCalls, talks, driving,
                   faults, calls, history, orchVars, svc>>

\* getUserMedia settles; the transport is created and WebRTCService.answerCall
\* runs up to get(callRef).
answerCallMedia(t) ==
    /\ t.kind = "answerCall" /\ t.pc = "media"
    /\ \E ok \in Outcomes :
        /\ Charge(ok)
        /\ IF t.disposed \/ ~ok
           THEN /\ cleanupCall(t.u, t.cl, tasks \ {t})
                /\ settled' = [settled EXCEPT ![t.u] =
                                  Thrown(t.kind, IF ok THEN "disposed" ELSE "media")]
           ELSE /\ svc' = [svc EXCEPT ![t.u] =
                        [createPeerConnection(@) EXCEPT !.localStream = TRUE]]
                /\ tasks' = (tasks \ {t}) \cup {[t EXCEPT !.pc = "get"]}
                /\ UNCHANGED <<callStatus, activeCall, incomingCall, monitor,
                               statusRef, activeCallRef, settled>>
    /\ UNCHANGED <<envVars, calls, history, closure, seenAdded, deliveredBusy,
                   connectedFired>>

\* get(callRef) settles: a missing record throws "Call not found"; otherwise
\* onicecandidate is installed and setRemoteDescription(offer) is awaited.
\* The task keeps whether the snapshot held an offer.
answerCallGet(t) ==
    /\ t.kind = "answerCall" /\ t.pc = "get"
    /\ \E ok \in Outcomes :
        /\ Charge(ok)
        /\ IF t.disposed \/ ~ok \/ ~calls[t.callId].exists
           THEN /\ cleanupCall(t.u, t.cl, tasks \ {t})
                /\ settled' = [settled EXCEPT ![t.u] =
                                  Thrown(t.kind, IF ~ok THEN "store"
                                                 ELSE IF t.disposed THEN "typeError"
                                                 ELSE "notFound")]
           ELSE /\ svc' = [svc EXCEPT ![t.u].iceCall = t.callId,
                                      ![t.u].iceList = "answerCandidates"]
                /\ tasks' = (tasks \ {t}) \cup
                      {[t EXCEPT !.pc = "neg", !.ok = calls[t.callId].offer]}
                /\ UNCHANGED <<callStatus, activeCall, incomingCall, monitor,
                               statusRef, activeCallRef, settled>>
    /\ UNCHANGED <<envVars, calls, history, closure, seenAdded, deliveredBusy,
                   connectedFired>>

\* setRemoteDescription, createAnswer and setLocalDescription settle: a
\* failure throws; otherwise remoteDescriptionSet is set and
\* update(callRef, {answer, status: "CONNECTED"}) is issued.
answerCallNegotiate(t) ==
    /\ t.kind = "answerCall" /\ t.pc = "neg"
    /\ \E srd \in Outcomes, wr \in Outcomes :
        /\ srd \/ wr
        /\ Charge(srd /\ wr)
        /\ IF t.disposed \/ ~t.ok \/ ~srd
           THEN /\ wr
                /\ cleanupCall(t.u, t.cl, tasks \ {t})
                /\ settled' = [settled EXCEPT ![t.u] =
                                  Thrown(t.kind, IF t.disposed THEN "disposed"
                                                 ELSE "negotiation")]
                /\ UNCHANGED calls
           ELSE /\ svc' = [svc EXCEPT ![t.u].remoteDescriptionSet = TRUE]
                /\ calls' = IF wr THEN [calls EXCEPT ![t.callId] = UpdateAnswer(@)]
                            ELSE calls
                /\ tasks' = (tasks \ {t}) \cup {[t EXCEPT !.pc = "update", !.ok = wr]}
                /\ UNCHANGED <<callStatus, activeCall, incomingCall, monitor,
                               statusRef, activeCallRef, settled>>
    /\ UNCHANGED <<envVars, history, closure, seenAdded, deliveredBusy, connectedFired>>

\* The same handling without the lookup in processedCandidates.
HandleCandidateNoLookup(s, cand, applyNow) ==
    IF applyNow
    THEN [s EXCEPT !.processedCandidates = @ \cup {JSONstringify(cand)},
                   !.applied = Append(@, cand)]
    ELSE [s EXCEPT !.processedCandidates = @ \cup {JSONstringify(cand)},
                   !.candidateQueue = Append(@, cand),
                   !.buffered = Append(@, cand)]

\* The same if a new candidate were applied or queued without being added
\* to processedCandidates.
HandleCandidateNoRecord(s, cand, applyNow) ==
    IF JSONstringify(cand) \in s.processedCandidates THEN s
    ELSE IF applyNow
         THEN [s EXCEPT !.applied = Append(@, cand)]
         ELSE [s EXCEPT !.candidateQueue = Append(@, cand),
                        !.buffered = Append(@, cand)]

\* One remote candidate of a snapshot, as the listeners and the catch-up read
\* handle it: skipped when its serialisation is known, else recorded and
\* either applied (applyNow) or queued.
HandleCandidate(s, cand, applyNow) ==
    IF JSONstringify(cand) \in s.processedCandidates THEN s
    ELSE IF applyNow
         THEN [s EXCEPT !.processedCandidates = @ \cup {JSONstringify(cand)},
                        !.applied = Append(@, cand)]
         ELSE [s EXCEPT !.processedCandidates = @ \cup {JSONstringify(cand)},
                        !.candidateQueue = Append(@, cand),
                        !.buffered = Append(@, cand)]

\* Object.values(candidates).forEach over a snapshot, in key order.
RECURSIVE HandleSnapshot(_, _, _)
HandleSnapshot(s, list, live) ==
    IF list = <<>> THEN s
    ELSE HandleSnapshot(
            HandleCandidate(s, Head(list), IF live THEN s.remoteDescriptionSet ELSE TRUE),
            Tail(list), live)

\* The same if the outcome of update() were not looked at.
answerCallUpdateUnchecked(t) ==
    /\ t.kind = "answerCall" /\ t.pc = "update"
    /\ \E rd \in Outcomes :
        /\ t.ok \/ rd
        /\ Charge(rd)
        /\ settled' = [settled EXCEPT ![t.u] =
                          IF ~rd THEN Thrown(t.kind, "store") ELSE "fulfilled"]
        /\ IF ~rd
           THEN cleanupCall(t.u, t.cl, tasks \ {t})
           ELSE /\ svc' = IF t.disposed THEN svc
                          ELSE [svc EXCEPT ![t.u] =
                                 [HandleSnapshot(@, calls[t.callId].offerCandidates, FALSE)
                                    EXCEPT !.rtdbListeners =
                                       @ \cup {<<"offerCandidates", t.callId>>}]]
                /\ activeCall' = [activeCall EXCEPT ![t.u] = t.callId]
                /\ incomingCall' = [incomingCall EXCEPT ![t.u] = NoCall]
                /\ callStatus' = [callStatus EXCEPT ![t.u] = "CONNECTED"]
                /\ tasks' = tasks \ {t}
                /\ UNCHANGED <<monitor, statusRef, activeCallRef>>
    /\ UNCHANGED <<envVars, calls, history, closure, seenAdded, deliveredBusy,
                   connectedFired>>

\* update() and get(offerCandidatesRef) settle: a failed write throws;
\* otherwise the catch-up read is applied, the offerCandidates listener is
\* registered, and answerCall sets activeCall and CONNECTED.
answerCallUpdate(t) ==
    /\ t.kind = "answerCall" /\ t.pc = "update"
    /\ \E rd \in Outcomes :
        /\ t.ok \/ rd
        /\ Charge(rd)
        /\ settled' = [settled EXCEPT ![t.u] =
                          IF ~t.ok \/ ~rd THEN Thrown(t.kind, "store") ELSE "fulfilled"]
        /\ IF ~t.ok \/ ~rd
           THEN cleanupCall(t.u, t.cl, tasks \ {t})
           ELSE /\ svc' = IF t.disposed THEN svc
                          ELSE [svc EXCEPT ![t.u] =
                                 [HandleSnapshot(@, calls[t.callId].offerCandidates, FALSE)
                                    EXCEPT !.rtdbListeners =
                                       @ \cup {<<"offerCandidates", t.callId>>}]]
                /\ activeCall' = [activeCall EXCEPT ![t.u] = t.callId]
                /\ incomingCall' = [incomingCall EXCEPT ![t.u] = NoCall]
                /\ callStatus' = [callStatus EXCEPT ![t.u] = "CONNECTED"]
                /\ tasks' = tasks \ {t}
                /\ UNCHANGED <<monitor, statusRef, activeCallRef>>
    /\ UNCHANGED <<envVars, calls, history, closure, seenAdded, deliveredBusy,
                   connectedFired>>

----------------------------------------------------------------------------
\* The archive-and-remove part of WebRTCService.cleanup.

\* The same if every existing record were archived, whatever its status.
cleanupGetArchivesAlways(t) ==
    /\ t.kind = "cleanup" /\ t.pc = "get"
    /\ \E rd \in Outcomes, wr \in Outcomes :
        /\ rd \/ wr
        /\ Charge(rd /\ wr)
        /\ LET data == calls[t.callId] IN
           IF ~rd \/ ~data.exists
           THEN /\ wr
                /\ tasks' = tasks \ {t}
                /\ UNCHANGED <<calls, history>>
           ELSE /\ history' = IF wr
                              THEN [history EXCEPT ![t.callId] = Append(@, HistoryData(data, t.u))]
                              ELSE history
                /\ tasks' = IF wr THEN (tasks \ {t}) \cup {[t EXCEPT !.pc = "setDoc"]}
                            ELSE tasks \ {t}
                /\ UNCHANGED calls
    /\ UNCHANGED <<envVars, orchVars, svc>>

\* get(callRef) settles.  A record that is neither ENDED nor REJECTED is
\* archived (setDoc issued, remove still to come); any other existing record
\* is removed.  A failure is caught and ends cleanup.
cleanupGet(t) ==
    /\ t.kind = "cleanup" /\ t.pc = "get"
    /\ \E rd \in Outcomes, wr \in Outcomes :
        /\ rd \/ wr
        /\ Charge(rd /\ wr)
        /\ LET data == calls[t.callId] IN
           IF ~rd \/ ~data.exists
           THEN /\ wr
                /\ tasks' = tasks \ {t}
                /\ UNCHANGED <<calls, history>>
           ELSE IF data.status \notin {"ENDED", "REJECTED"}
           THEN /\ history' = IF wr
                              THEN [history EXCEPT ![t.callId] = Append(@, HistoryData(data, t.u))]
                              ELSE history
                /\ tasks' = IF wr THEN (tasks \ {t}) \cup {[t EXCEPT !.pc = "setDoc"]}
                            ELSE tasks \ {t}
                /\ UNCHANGED calls
           ELSE /\ calls' = IF wr THEN [calls EXCEPT ![t.callId] = Absent] ELSE calls
                /\ tasks' = tasks \ {t}
                /\ UNCHANGED history
    /\ UNCHANGED <<envVars, orchVars, svc>>

\* The same if a failed remove were thrown to whoever awaits cleanup.
cleanupSetDocRethrows(t) ==
    /\ t.kind = "cleanup" /\ t.pc = "setDoc"
    /\ \E wr \in Outcomes :
        /\ Charge(wr)
        /\ calls' = IF wr THEN [calls EXCEPT ![t.callId] = Absent] ELSE calls
        /\ settled' = IF wr THEN settled ELSE [settled EXCEPT ![t.u] = "store"]
    /\ tasks' = tasks \ {t}
    /\ UNCHANGED <<envVars, history, callStatus, activeCall, incomingCall, closure,
                   statusRef, activeCallRef, monitor, seenAdded, deliveredBusy,
                   connectedFired, svc>>

\* setDoc(historyRef, historyData) settles: remove(callRef) is issued.
cleanupSetDoc(t) ==
    /\ t.kind = "cleanup" /\ t.pc = "setDoc"
    /\ \E wr \in Outcomes :
        /\ Charge(wr)
        /\ calls' = IF wr THEN [calls EXCEPT ![t.callId] = Absent] ELSE calls
    /\ tasks' = tasks \ {t}
    /\ UNCHANGED <<envVars, history, orchVars, svc>>

----------------------------------------------------------------------------
\* endCall and rejectCall.

\* The status write of the orchestrator: updateDoc fails on a missing
\* document, update creates the node.
StatusWrite(rec, s) ==
    IF variant = "fs" /\ ~rec.exists THEN rec ELSE UpdateStatus(rec, s)

\* The user has something to hang up: a call, a ringing, a dialling.
CanHangUp(u) ==
    \/ closure[u].activeCall # NoCall
    \/ callStatus[u] # "ENDED"
    \/ \E t \in tasks : t.u = u /\ t.kind \in {"makeCall", "answerCall"}

\* endCall up to the await of its status write; with no active call in its
\* closure it runs cleanupCall at once.
endCall(u) ==
    /\ hangups > 0
    /\ closure[u] = Rendered(u)
    /\ CanHangUp(u)
    /\ hangups' = hangups - 1
    /\ IF closure[u].activeCall = NoCall
       THEN /\ cleanupCall(u, NoCall, tasks)
            /\ UNCHANGED <<calls, faults, endCalls>>
       ELSE \E ok \in Outcomes :
            /\ Charge(ok)
            /\ calls' = IF ok
                        THEN [calls EXCEPT ![closure[u].activeCall] = StatusWrite(@, "ENDED")]
                        ELSE calls
            /\ endCalls' = endCalls \cup
                 {[u |-> u, callId |-> closure[u].activeCall, ok |-> ok,
                   was |-> calls[closure[u].activeCall].status]}
            /\ tasks' = tasks \cup
                 {Fresh(Task("endCall", u, "update", closure[u].activeCall, NoUser, 0,
                             ok, closure[u].activeCall), tasks)}
            /\ UNCHANGED <<callStatus, activeCall, incomingCall, monitor,
                           statusRef, activeCallRef, svc>>
    /\ UNCHANGED <<activeSpeakerId, isHoldingButton, variant, dial, gatherLimit, talks, retriggers, driving, nextCallId, history, closure,
                   seenAdded, deliveredBusy, connectedFired, settled>>

\* The status write of endCall settles, with or without success: cleanupCall.
endCallUpdate(t) ==
    /\ t.kind = "endCall" /\ t.pc = "update"
    /\ cleanupCall(t.u, t.cl, tasks \ {t})
    /\ UNCHANGED <<envVars, faults, calls, history, closure, seenAdded, deliveredBusy, connectedFired, settled>>

\* rejectCall up to the await of its status write.
rejectCall(u) ==
    /\ closure[u] = Rendered(u)
    /\ closure[u].incomingCall # NoCall
    /\ ~\E t \in tasks : t.u = u /\ t.kind = "rejectCall"
    /\ \E ok \in Outcomes :
        /\ Charge(ok)
        /\ calls' = IF ok
                    THEN [calls EXCEPT ![closure[u].incomingCall] = StatusWrite(@, "REJECTED")]
                    ELSE calls
        /\ tasks' = tasks \cup
             {Task("rejectCall", u, "update", closure[u].incomingCall, NoUser, 0, ok, NoCall)}
    /\ UNCHANGED <<envVars, history, orchVars, svc>>

\* The same continuation without setCallStatus(ENDED).
rejectCallUpdateKeepsStatus(t) ==
    /\ t.kind = "rejectCall" /\ t.pc = "update"
    /\ incomingCall' = [incomingCall EXCEPT ![t.u] = NoCall]
    /\ tasks' = tasks \ {t}
    /\ UNCHANGED <<envVars, faults, calls, history, callStatus, activeCall, closure,
                   statusRef, activeCallRef, monitor, seenAdded, deliveredBusy, connectedFired, settled, svc>>

\* The status write of rejectCall settles: the incoming call is cleared and
\* the status set to idle; the service is left as it is.
rejectCallUpdate(t) ==
    /\ t.kind = "rejectCall" /\ t.pc = "update"
    /\ incomingCall' = [incomingCall EXCEPT ![t.u] = NoCall]
    /\ callStatus' = [callStatus EXCEPT ![t.u] = "ENDED"]
    /\ tasks' = tasks \ {t}
    /\ UNCHANGED <<envVars, faults, calls, history, activeCall, closure, statusRef,
                   activeCallRef, monitor, seenAdded, deliveredBusy, connectedFired, settled, svc>>

----------------------------------------------------------------------------
\* toggleTalk.

\* The activeSpeakerId write of the orchestrator: updateDoc fails on a
\* missing document, update creates the node.
SpeakerWrite(rec, who) ==
    IF variant = "fs" /\ ~rec.exists THEN rec ELSE UpdateSpeaker(rec, who)

\* The same handler switching the tracks only when the write is taken.
toggleTalkAfterWrite(u, isTalking) ==
    /\ talks > 0
    /\ closure[u] = Rendered(u)
    /\ closure[u].activeCall # NoCall
    /\ svc[u].localStream
    /\ talks' = talks - 1
    /\ \E ok \in Outcomes :
        /\ Charge(ok)
        /\ svc' = IF ok THEN [svc EXCEPT ![u].audioEnabled = isTalking] ELSE svc
        /\ calls' = IF ok
                    THEN [calls EXCEPT ![closure[u].activeCall] =
                            SpeakerWrite(@, IF isTalking THEN u ELSE NoUser)]
                    ELSE calls
        /\ tasks' = tasks \cup
             {Fresh(Task("toggleTalk", u, "update", closure[u].activeCall,
                         IF isTalking THEN u ELSE NoUser, 0, ok, NoCall), tasks)}
    /\ UNCHANGED <<activeSpeakerId, variant, dial, hangups, gatherLimit, nextCallId, endCalls, retriggers, driving,
                   history, orchVars>>

\* toggleTalk(isTalking) up to the await of its write: with an active call
\* and a local stream in its closure, the tracks of the stream are switched
\* at once and the write of activeSpeakerId is issued; the task keeps the
\* value written.
toggleTalk(u, isTalking) ==
    /\ talks > 0
    /\ closure[u] = Rendered(u)
    /\ closure[u].activeCall # NoCall
    /\ svc[u].localStream
    /\ talks' = talks - 1
    /\ svc' = [svc EXCEPT ![u].audioEnabled = isTalking]
    /\ \E ok \in Outcomes :
        /\ Charge(ok)
        /\ calls' = IF ok
                    THEN [calls EXCEPT ![closure[u].activeCall] =
                            SpeakerWrite(@, IF isTalking THEN u ELSE NoUser)]
                    ELSE calls
        /\ tasks' = tasks \cup
             {Fresh(Task("toggleTalk", u, "update", closure[u].activeCall,
                         IF isTalking THEN u ELSE NoUser, 0, ok, NoCall), tasks)}
    /\ UNCHANGED <<activeSpeakerId, variant, dial, hangups, gatherLimit, nextCallId, endCalls, retriggers, driving,
                   history, orchVars>>

\* The settling of toggleTalk's write if a failed write ended the call.
toggleTalkUpdateFatal(t) ==
    /\ t.kind = "toggleTalk" /\ t.pc = "update"
    /\ IF t.ok
       THEN /\ tasks' = tasks \ {t}
            /\ UNCHANGED <<callStatus, activeCall, incomingCall, monitor, statusRef,
                           activeCallRef, svc>>
       ELSE cleanupCall(t.u, activeCall[t.u], tasks \ {t})
    /\ UNCHANGED <<envVars, faults, calls, history, closure, seenAdded, deliveredBusy,
                   connectedFired, settled>>

\* The write of toggleTalk settles: a failure is logged, nothing else happens.
toggleTalkUpdate(t) ==
    /\ t.kind = "toggleTalk" /\ t.pc = "update"
    /\ tasks' = tasks \ {t}
    /\ UNCHANGED <<envVars, faults, calls, history, orchVars, svc>>

\* toggleTalk as the page calls it: without an active call or a local stream
\* in its closure it returns at once.
pageToggleTalk(u, isTalking) ==
    IF closure[u].activeCall # NoCall /\ svc[u].localStream
    THEN toggleTalk(u, isTalking)
    ELSE /\ talks > 0
         /\ talks' = talks - 1
         /\ UNCHANGED <<activeSpeakerId, variant, dial, hangups, gatherLimit, nextCallId,
                        endCalls, retriggers, driving, faults, calls, history,
                        orchVars, svc, tasks>>

\* handleTouchStart of the WalkieTalkie page: ignored unless the rendered
\* status is CONNECTED and the rendered activeCall names no other speaker;
\* otherwise the button is held and toggleTalk(true) is called.
handleTouchStart(u) ==
    /\ closure[u] = Rendered(u)
    /\ closure[u].callStatus = "CONNECTED"
    /\ SpeakerShown(u) \in {NoUser, u}
    /\ isHoldingButton' = [isHoldingButton EXCEPT ![u] = TRUE]
    /\ pageToggleTalk(u, TRUE)

\* handleTouchEnd of the page: ignored unless the button is held; otherwise
\* the button is released and toggleTalk(false) is called.
handleTouchEnd(u) ==
    /\ closure[u] = Rendered(u)
    /\ isHoldingButton[u]
    /\ isHoldingButton' = [isHoldingButton EXCEPT ![u] = FALSE]
    /\ pageToggleTalk(u, FALSE)

----------------------------------------------------------------------------
\* The provider's render and effects.

\* A render commits and its effects run: the handlers close over the new
\* state, the two ref effects copy what changed, and the monitor effect
\* re-subscribes when activeCall?.callId changed.
render(u) ==
    /\ Rendered(u) # closure[u]
    /\ closure' = [closure EXCEPT ![u] = Rendered(u)]
    /\ statusRef' = IF callStatus[u] # closure[u].callStatus
                    THEN [statusRef EXCEPT ![u] = callStatus[u]] ELSE statusRef
    /\ activeCallRef' = IF activeCall[u] # closure[u].activeCall
                        THEN [activeCallRef EXCEPT ![u] = activeCall[u]]
                        ELSE activeCallRef
    /\ monitor' = IF activeCall[u] # closure[u].activeCall
                  THEN [monitor EXCEPT ![u] = activeCall[u]] ELSE monitor
    /\ connectedFired' = [connectedFired EXCEPT ![u] = 0]
    /\ UNCHANGED <<envVars, faults, calls, history, callStatus, activeCall,
                   incomingCall, seenAdded, deliveredBusy, settled, svc, tasks>>

----------------------------------------------------------------------------
\* The provider's listeners.

\* The calls of the store addressed to u that are OFFERING.
Offering(u) ==
    {c \in CallIds : calls[c].exists /\ calls[c].calleeId = u
                     /\ calls[c].status = "OFFERING"}

\* The calls of S that u neither rings for nor is in.
OtherCalls(u, S) == S \ {incomingCall[u], activeCall[u]}

\* The incoming-call listener of AuthContext.tsx if an idle callee wrote its
\* RINGING to the record of the call.
incomingCallAddedWritesRinging(u, c) ==
    /\ variant = "fs"
    /\ c \in Offering(u) \ seenAdded[u]
    /\ seenAdded' = [seenAdded EXCEPT ![u] = @ \cup {c}]
    /\ IF statusRef[u] = "ENDED"
       THEN /\ incomingCall' = [incomingCall EXCEPT ![u] = c]
            /\ callStatus' = [callStatus EXCEPT ![u] = "RINGING"]
            /\ calls' = [calls EXCEPT ![c] = StatusWrite(@, "RINGING")]
            /\ UNCHANGED <<faults, deliveredBusy>>
       ELSE /\ deliveredBusy' = [deliveredBusy EXCEPT ![u] = @ \cup OtherCalls(u, {c})]
            /\ \E ok \in Outcomes :
                /\ c # activeCallRef[u] \/ ok
                /\ Charge(ok)
                /\ calls' = IF c # activeCallRef[u] /\ ok
                            THEN [calls EXCEPT ![c] = StatusWrite(@, "BUSY")]
                            ELSE calls
            /\ UNCHANGED <<incomingCall, callStatus>>
    /\ UNCHANGED <<envVars, history, activeCall, closure, statusRef, activeCallRef,
                   monitor, connectedFired, settled, svc, tasks>>

\* Incoming-call listener of AuthContext.tsx: one "added" change per call
\* entering the query; an idle callee rings, a busy one writes BUSY to a call
\* that is not its own.
incomingCallAdded(u, c) ==
    /\ variant = "fs"
    /\ c \in Offering(u) \ seenAdded[u]
    /\ seenAdded' = [seenAdded EXCEPT ![u] = @ \cup {c}]
    /\ IF statusRef[u] = "ENDED"
       THEN /\ incomingCall' = [incomingCall EXCEPT ![u] = c]
            /\ callStatus' = [callStatus EXCEPT ![u] = "RINGING"]
            /\ UNCHANGED <<calls, faults, deliveredBusy>>
       ELSE /\ deliveredBusy' = [deliveredBusy EXCEPT ![u] = @ \cup OtherCalls(u, {c})]
            /\ \E ok \in Outcomes :
                /\ c # activeCallRef[u] \/ ok
                /\ Charge(ok)
                /\ calls' = IF c # activeCallRef[u] /\ ok
                            THEN [calls EXCEPT ![c] = StatusWrite(@, "BUSY")]
                            ELSE calls
            /\ UNCHANGED <<incomingCall, callStatus>>
    /\ UNCHANGED <<envVars, history, activeCall, closure, statusRef, activeCallRef,
                   monitor, connectedFired, settled, svc, tasks>>

\* The call the forEach of the onValue listener leaves in incomingCall: the
\* last OFFERING one in key order.
LastOffering(u) == CHOOSE c \in Offering(u) : \A d \in Offering(u) : d <= c

\* Incoming-call listener of part_001: every value event carries all calls
\* addressed to u; an idle callee rings for the OFFERING ones, a busy one
\* logs them and does nothing else.
incomingCallValue(u) ==
    /\ variant = "rtdb"
    /\ Offering(u) # {}
    /\ IF statusRef[u] = "ENDED"
       THEN /\ incomingCall' = [incomingCall EXCEPT ![u] = LastOffering(u)]
            /\ callStatus' = [callStatus EXCEPT ![u] = "RINGING"]
            /\ UNCHANGED deliveredBusy
       ELSE /\ ~(OtherCalls(u, Offering(u)) \subseteq deliveredBusy[u])
            /\ deliveredBusy' = [deliveredBusy EXCEPT ![u] =
                                    @ \cup OtherCalls(u, Offering(u))]
            /\ UNCHANGED <<incomingCall, callStatus>>
    /\ UNCHANGED <<envVars, faults, calls, history, activeCall, closure, statusRef,
                   activeCallRef, monitor, seenAdded, connectedFired, settled, svc, tasks>>

\* Active-call monitor: the snapshot of the monitored record.  A vanished
\* record ends the call in part_001 and is ignored in AuthContext.tsx;
\* CONNECTED is taken over unless the ref already says so; a defined
\* activeSpeakerId is copied into activeCall; a terminal status runs
\* cleanupCall of the closure that holds the monitored call.
activeCallMonitor(u) ==
    /\ monitor[u] # NoCall
    /\ LET data == calls[monitor[u]]
           connects == data.status = "CONNECTED" /\ statusRef[u] # "CONNECTED"
       IN
       IF ~data.exists
       THEN /\ variant = "rtdb"
            /\ cleanupCall(u, monitor[u], tasks)
            /\ UNCHANGED <<connectedFired, activeSpeakerId>>
       ELSE IF data.status \in MonitorTerminal
       THEN /\ cleanupCall(u, monitor[u], tasks)
            /\ UNCHANGED <<connectedFired, activeSpeakerId>>
       ELSE /\ connects \/ SpeakerSeen(u, monitor[u], data) # activeSpeakerId[u]
            /\ callStatus' = IF connects THEN [callStatus EXCEPT ![u] = "CONNECTED"]
                             ELSE callStatus
            /\ connectedFired' = IF connects
                                 THEN [connectedFired EXCEPT ![u] =
                                         IF @ < MaxFired THEN @ + 1 ELSE @]
                                 ELSE connectedFired
            /\ activeSpeakerId' = [activeSpeakerId EXCEPT ![u] =
                                      SpeakerSeen(u, monitor[u], data)]
            /\ UNCHANGED <<activeCall, incomingCall, monitor, statusRef,
                           activeCallRef, svc, tasks>>
    /\ UNCHANGED <<variant, dial, hangups, gatherLimit, nextCallId, endCalls, talks,
                   retriggers, driving, isHoldingButton,
                   faults, calls, history, closure, seenAdded, deliveredBusy, settled>>

----------------------------------------------------------------------------
\* The service's listeners.

\* The same listener if it did not look at settingRemoteDescription.
answerListenerUnguarded(u, c) ==
    /\ <<"call", c>> \in svc[u].rtdbListeners
    /\ calls[c].exists /\ calls[c].answer
    /\ ~svc[u].remoteDescriptionSet
    /\ svc[u].signalingState = "have-local-offer"
    /\ Cardinality({t \in tasks : t.kind = "applyAnswer" /\ t.u = u}) < 2
    /\ svc' = [svc EXCEPT ![u].settingRemoteDescription = TRUE]
    /\ tasks' = tasks \cup
          {Fresh(Task("applyAnswer", u, "srd", c, NoUser, 0, TRUE, NoCall), tasks)}
    /\ UNCHANGED <<envVars, faults, calls, history, orchVars>>

\* answerListener of createCall, notified of the record: with an answer in
\* the record, no remote description set or being set, and the transport in
\* have-local-offer, it takes the guard and awaits
\* setRemoteDescription(answer).
answerListener(u, c) ==
    /\ <<"call", c>> \in svc[u].rtdbListeners
    /\ calls[c].exists /\ calls[c].answer
    /\ calls[c] # svc[u].failedOn
    /\ ~svc[u].remoteDescriptionSet /\ ~svc[u].settingRemoteDescription
    /\ svc[u].signalingState = "have-local-offer"
    /\ svc' = [svc EXCEPT ![u].settingRemoteDescription = TRUE]
    /\ tasks' = tasks \cup {Task("applyAnswer", u, "srd", c, NoUser, 0, TRUE, NoCall)}
    /\ UNCHANGED <<envVars, faults, calls, history, orchVars>>

\* The same flush, taking the queue from its newest entry.
FlushNewestFirst(s, n) ==
    IF n < Len(s.candidateQueue)
    THEN [s EXCEPT !.applied = Append(@, s.candidateQueue[Len(s.candidateQueue) - n])]
    ELSE [s EXCEPT !.candidateQueue = <<>>, !.settingRemoteDescription = FALSE]

\* processBufferedCandidates after its n-th addIceCandidate: the next queued
\* candidate is handed to the transport, or the queue is cleared and the
\* finally block releases the guard.
Flush(s, n) ==
    IF n < Len(s.candidateQueue)
    THEN [s EXCEPT !.applied = Append(@, s.candidateQueue[n + 1])]
    ELSE [s EXCEPT !.candidateQueue = <<>>, !.settingRemoteDescription = FALSE]

\* setRemoteDescription(answer) settles: on success remoteDescriptionSet is
\* set and processBufferedCandidates starts; on failure the guard is released.
answerListenerApplied(t) ==
    /\ t.kind = "applyAnswer" /\ t.pc = "srd"
    /\ \E ok \in Outcomes :
        /\ Charge(ok)
        /\ IF ok
           THEN LET s == [svc[t.u] EXCEPT !.remoteDescriptionSet = TRUE,
                                          !.signalingState = "stable"] IN
                /\ svc' = [svc EXCEPT ![t.u] = Flush(s, 0)]
                /\ tasks' = IF s.candidateQueue = <<>> THEN tasks \ {t}
                            ELSE (tasks \ {t}) \cup {[t EXCEPT !.pc = "flush", !.n = 1]}
           ELSE /\ svc' = [svc EXCEPT ![t.u].settingRemoteDescription = FALSE,
                                      ![t.u].failedOn = calls[t.callId]]
                /\ tasks' = tasks \ {t}
    /\ UNCHANGED <<envVars, calls, history, orchVars>>

\* One addIceCandidate of processBufferedCandidates settles: a rejection is
\* caught and logged, and the loop goes on.
processBufferedCandidates(t) ==
    /\ t.kind = "applyAnswer" /\ t.pc = "flush"
    /\ \E ok \in Outcomes :
        /\ Charge(ok)
        /\ svc' = [svc EXCEPT ![t.u] =
                      [Flush(@, t.n) EXCEPT !.logged = IF ok THEN @ ELSE @ + 1]]
    /\ tasks' = IF t.n < Len(svc[t.u].candidateQueue)
                THEN (tasks \ {t}) \cup {[t EXCEPT !.n = @ + 1]}
                ELSE tasks \ {t}
    /\ UNCHANGED <<envVars, calls, history, orchVars>>

\* candidatesListener of createCall: a value event of answerCandidates.  An
\* addIceCandidate it makes may be rejected, which is caught and logged.
candidatesListener(u, c) ==
    /\ <<"answerCandidates", c>> \in svc[u].rtdbListeners
    /\ LET s == HandleSnapshot(svc[u], calls[c].answerCandidates, TRUE) IN
       /\ s # svc[u]
       /\ \E ok \in Outcomes :
           /\ ok \/ s.applied # svc[u].applied
           /\ Charge(ok)
           /\ svc' = [svc EXCEPT ![u] =
                         [s EXCEPT !.logged = IF ok THEN @ ELSE @ + 1]]
    /\ UNCHANGED <<envVars, calls, history, orchVars, tasks>>

\* The offerCandidates listener of answerCall: a value event of
\* offerCandidates.  A rejected addIceCandidate is caught by an empty catch.
offerCandidatesListener(u, c) ==
    /\ <<"offerCandidates", c>> \in svc[u].rtdbListeners
    /\ svc' = [svc EXCEPT ![u] = HandleSnapshot(@, calls[c].offerCandidates, TRUE)]
    /\ svc'[u] # svc[u]
    /\ \E ok \in Outcomes :
        /\ ok \/ svc'[u].applied # svc[u].applied
        /\ Charge(ok)
    /\ UNCHANGED <<envVars, calls, history, orchVars, tasks>>

----------------------------------------------------------------------------
\* The teardown of the older CallProvider of src/unnamed/part_000 (variant
\* "legacy": status writes through updateDoc without a catch, no refs, the
\* monitor re-subscribed by every render).  Its call set-up runs through a
\* service API that is not part of src, so the provider is taken up in the
\* middle of a call between A and B.

\* The states a call between A and B goes through before anyone hangs up:
\* the record's status and the local status of caller and callee.
LegacyCalls ==
    {[rec |-> "OFFERING", caller |-> "OFFERING", callee |-> "RINGING"],
     [rec |-> "CONNECTED", caller |-> "OFFERING", callee |-> "CONNECTED"],
     [rec |-> "CONNECTED", caller |-> "CONNECTED", callee |-> "CONNECTED"]}

InitLegacy ==
    /\ variant = "legacy"
    /\ dial = {}
    /\ faults = MaxFaults
    /\ hangups = MaxHangups
    /\ gatherLimit = 0
    /\ nextCallId = 2
    /\ history = [c \in CallIds |-> <<>>]
    /\ endCalls = {}
    /\ statusRef = [u \in Users |-> "ENDED"]
    /\ activeCallRef = [u \in Users |-> NoCall]
    /\ monitor = [u \in Users |-> NoCall]
    /\ seenAdded = [u \in Users |-> {}]
    /\ deliveredBusy = [u \in Users |-> {}]
    /\ connectedFired = [u \in Users |-> 0]
    /\ settled = [u \in Users |-> "none"]
    /\ isHoldingButton = [u \in Users |-> FALSE]
    /\ activeSpeakerId = [u \in Users |-> NoSpeaker]
    /\ talks = 0
    /\ retriggers = 0
    /\ driving = 0
    /\ svc = [u \in Users |-> NewService]
    /\ tasks = {}
    /\ \E st \in LegacyCalls :
        /\ calls = [c \in CallIds |->
                      IF c = 1
                      THEN [CallData("A", "B") EXCEPT !.status = st.rec,
                                                      !.answer = (st.rec = "CONNECTED")]
                      ELSE Absent]
        /\ callStatus = [u \in Users |->
                           IF u = "A" THEN st.caller
                           ELSE IF u = "B" THEN st.callee ELSE "ENDED"]
        /\ activeCall = [u \in Users |->
                           IF u = "A" THEN 1
                           ELSE IF u = "B" /\ st.callee = "CONNECTED" THEN 1 ELSE NoCall]
        /\ incomingCall = [u \in Users |->
                             IF u = "B" /\ st.callee = "RINGING" THEN 1 ELSE NoCall]
    /\ closure = [u \in Users |-> Rendered(u)]

\* cleanupCall of part_000: local state to idle, the service closed and
\* replaced.
cleanupCallLegacy(u) ==
    /\ callStatus' = [callStatus EXCEPT ![u] = "ENDED"]
    /\ activeCall' = [activeCall EXCEPT ![u] = NoCall]
    /\ incomingCall' = [incomingCall EXCEPT ![u] = NoCall]
    /\ svc' = [svc EXCEPT ![u] = NewService]

\* endCall of part_000 up to the await of updateDoc; with no active call in
\* its closure it runs cleanupCall at once.
endCallLegacy(u) ==
    /\ variant = "legacy"
    /\ hangups > 0
    /\ closure[u] = Rendered(u)
    /\ hangups' = hangups - 1
    /\ IF closure[u].activeCall = NoCall
       THEN /\ cleanupCallLegacy(u)
            /\ UNCHANGED <<calls, faults, endCalls, tasks>>
       ELSE \E ok \in Outcomes :
            /\ Charge(ok)
            /\ calls' = IF ok
                        THEN [calls EXCEPT ![closure[u].activeCall] = UpdateStatus(@, "ENDED")]
                        ELSE calls
            /\ endCalls' = endCalls \cup
                 {[u |-> u, callId |-> closure[u].activeCall, ok |-> ok,
                   was |-> calls[closure[u].activeCall].status]}
            /\ tasks' = tasks \cup
                 {Fresh(Task("endCall", u, "update", closure[u].activeCall, NoUser, 0,
                             ok, closure[u].activeCall), tasks)}
            /\ UNCHANGED <<callStatus, activeCall, incomingCall, svc>>
    /\ UNCHANGED <<activeSpeakerId, isHoldingButton, variant, dial, gatherLimit, talks, retriggers, driving, nextCallId, history, closure, statusRef,
                   activeCallRef, monitor, seenAdded, deliveredBusy, connectedFired, settled>>

\* updateDoc of endCall settles: fulfilled, cleanupCall runs; rejected, the
\* exception leaves endCall before cleanupCall.
endCallLegacySettled(t) ==
    /\ variant = "legacy"
    /\ t.kind = "endCall" /\ t.pc = "update"
    /\ tasks' = tasks \ {t}
    /\ IF t.ok
       THEN cleanupCallLegacy(t.u)
       ELSE UNCHANGED <<callStatus, activeCall, incomingCall, svc>>
    /\ UNCHANGED <<envVars, faults, calls, history, closure, statusRef, activeCallRef,
                   monitor, seenAdded, deliveredBusy, connectedFired, settled>>

\* rejectCall of part_000 up to the await of updateDoc.
rejectCallLegacy(u) ==
    /\ variant = "legacy"
    /\ closure[u] = Rendered(u)
    /\ closure[u].incomingCall # NoCall
    /\ ~\E t \in tasks : t.u = u /\ t.kind = "rejectCall"
    /\ \E ok \in Outcomes :
        /\ Charge(ok)
        /\ calls' = IF ok
                    THEN [calls EXCEPT ![closure[u].incomingCall] = UpdateStatus(@, "REJECTED")]
                    ELSE calls
        /\ tasks' = tasks \cup
             {Task("rejectCall", u, "update", closure[u].incomingCall, NoUser, 0, ok, NoCall)}
    /\ UNCHANGED <<envVars, history, orchVars, svc>>

\* updateDoc of rejectCall settles: fulfilled, the incoming call is cleared;
\* rejected, the exception leaves rejectCall before that.
rejectCallLegacySettled(t) ==
    /\ variant = "legacy"
    /\ t.kind = "rejectCall" /\ t.pc = "update"
    /\ tasks' = tasks \ {t}
    /\ incomingCall' = IF t.ok THEN [incomingCall EXCEPT ![t.u] = NoCall] ELSE incomingCall
    /\ callStatus' = IF t.ok THEN [callStatus EXCEPT ![t.u] = "ENDED"] ELSE callStatus
    /\ UNCHANGED <<envVars, faults, calls, history, activeCall, closure, statusRef,
                   activeCallRef, monitor, seenAdded, deliveredBusy, connectedFired, settled, svc>>

\* A render of part_000 commits: the handlers and the monitor close over the
\* new state, and a changed callStatus subscribes the incoming-call listener
\* anew.
renderLegacy(u) ==
    /\ variant = "legacy"
    /\ Rendered(u) # closure[u]
    /\ closure' = [closure EXCEPT ![u] = Rendered(u)]
    /\ connectedFired' = [connectedFired EXCEPT ![u] = 0]
    /\ seenAdded' = IF callStatus[u] # closure[u].callStatus
                    THEN [seenAdded EXCEPT ![u] = {}]
                    ELSE seenAdded
    /\ UNCHANGED <<envVars, faults, calls, history, callStatus, activeCall,
                   incomingCall, statusRef, activeCallRef, monitor,
                   deliveredBusy, settled, svc, tasks>>

\* Incoming-call listener of part_000, subscribed by the latest render whose
\* callStatus changed: every OFFERING call addressed to u is "added" once to
\* each subscription; a callee whose rendered status is idle rings, any
\* other one writes BUSY to the record (updateDoc, not awaited).
incomingCallAddedLegacy(u, c) ==
    /\ variant = "legacy"
    /\ c \in Offering(u) \ seenAdded[u]
    /\ seenAdded' = [seenAdded EXCEPT ![u] = @ \cup {c}]
    /\ IF closure[u].callStatus = "ENDED"
       THEN /\ incomingCall' = [incomingCall EXCEPT ![u] = c]
            /\ callStatus' = [callStatus EXCEPT ![u] = "RINGING"]
            /\ UNCHANGED <<calls, faults>>
       ELSE /\ \E ok \in Outcomes :
                /\ Charge(ok)
                /\ calls' = IF ok THEN [calls EXCEPT ![c] = UpdateStatus(@, "BUSY")]
                            ELSE calls
            /\ UNCHANGED <<incomingCall, callStatus>>
    /\ UNCHANGED <<envVars, history, activeCall, closure, statusRef, activeCallRef,
                   monitor, deliveredBusy, connectedFired, settled, svc, tasks>>

\* The call-document listener of part_000, subscribed by the latest render:
\* CONNECTED is taken over by a caller that is OFFERING, a defined
\* activeSpeakerId is copied into activeCall, a terminal status runs
\* cleanupCall.
activeCallMonitorLegacy(u) ==
    /\ variant = "legacy"
    /\ closure[u].activeCall # NoCall
    /\ LET data == calls[closure[u].activeCall]
           connects == data.status = "CONNECTED" /\ closure[u].callStatus = "OFFERING"
       IN
       /\ data.exists
       /\ IF data.status \in {"ENDED", "REJECTED", "BUSY"}
          THEN /\ cleanupCallLegacy(u)
               /\ UNCHANGED <<connectedFired, activeSpeakerId>>
          ELSE /\ \/ connects
                  \/ SpeakerSeen(u, closure[u].activeCall, data) # activeSpeakerId[u]
               /\ callStatus' = IF connects THEN [callStatus EXCEPT ![u] = "CONNECTED"]
                                ELSE callStatus
               /\ connectedFired' = IF connects
                                    THEN [connectedFired EXCEPT ![u] =
                                            IF @ < MaxFired THEN @ + 1 ELSE @]
                                    ELSE connectedFired
               /\ activeSpeakerId' = [activeSpeakerId EXCEPT ![u] =
                                         SpeakerSeen(u, closure[u].activeCall, data)]
               /\ UNCHANGED <<activeCall, incomingCall, svc>>
    /\ UNCHANGED <<variant, dial, hangups, gatherLimit, nextCallId, endCalls, talks,
                   retriggers, driving, isHoldingButton,
                   faults, calls, history, closure, statusRef, activeCallRef,
                   monitor, seenAdded, deliveredBusy, settled, tasks>>

\* The steps of the older provider.
NextLegacy ==
    \/ \E u \in Users : endCallLegacy(u)
    \/ \E t \in tasks : endCallLegacySettled(t)
    \/ \E u \in Users : rejectCallLegacy(u)
    \/ \E t \in tasks : rejectCallLegacySettled(t)
    \/ \E u \in Users : renderLegacy(u)
    \/ \E u \in Users : activeCallMonitorLegacy(u)
    \/ \E u \in Users, c \in CallIds : incomingCallAddedLegacy(u, c)

SpecLegacy == InitLegacy /\ [][NextLegacy]_vars

----------------------------------------------------------------------------
\* The public methods of WebRTCService called directly on the instances of A
\* and B, in any order and also after cleanup(): the instance stays where it
\* is, disposed, instead of being replaced as cleanupCall() replaces it.

\* The provider state, which these methods do not touch.
provVars == <<callStatus, activeCall, incomingCall, closure, statusRef,
              activeCallRef, monitor, seenAdded, deliveredBusy, connectedFired>>

\* The instances driven directly, and the room for their continuations.
Driven == {"A", "B"}

HasRoom(u) == Cardinality({t \in tasks : t.u = u}) < MaxInFlight

\* What the users and the pages may still do.
userVars == <<variant, dial, hangups, gatherLimit, endCalls, talks, retriggers,
              isHoldingButton, activeSpeakerId>>

\* One direct call is made.
Drive == driving > 0 /\ driving' = driving - 1

\* The synchronous part of cleanup(): disposed flag set, listeners detached,
\* negotiation state cleared, transport closed and dropped, tracks stopped.
Disposed(s) ==
    [s EXCEPT !.isDisposed = TRUE, !.rtdbListeners = {},
              !.processedCandidates = {}, !.candidateQueue = <<>>,
              !.remoteDescriptionSet = FALSE, !.settingRemoteDescription = FALSE,
              !.peerConnection = FALSE, !.signalingState = "closed",
              !.iceCall = NoCall, !.iceList = "none",
              !.localStream = FALSE, !.audioEnabled = FALSE]

\* cleanup(callId) up to its first await.
WebRTCService_cleanup(u, cid) ==
    /\ Drive
    /\ HasRoom(u)
    /\ svc' = [svc EXCEPT ![u] = Disposed(@)]
    /\ tasks' = cleanup(u, cid, tasks)
    /\ UNCHANGED <<userVars, nextCallId, faults, calls, history, provVars, settled>>

\* setupLocalMedia() up to await getUserMedia(): a disposed instance throws
\* "Service disposed".
WebRTCService_setupLocalMedia(u) ==
    /\ Drive
    /\ HasRoom(u)
    /\ IF svc[u].isDisposed
       THEN /\ settled' = [settled EXCEPT ![u] = "disposed"]
            /\ UNCHANGED tasks
       ELSE /\ tasks' = tasks \cup
                 {Fresh(Task("setupLocalMedia", u, "media", NoCall, NoUser, 0, TRUE,
                             NoCall), tasks)}
            /\ UNCHANGED settled
    /\ UNCHANGED <<userVars, nextCallId, faults, calls, history, provVars, svc>>

\* getUserMedia settles: a failure is rethrown; on an instance disposed in the
\* meantime the tracks are stopped and "Service disposed during media setup"
\* is thrown; otherwise the stream is kept.
setupLocalMediaStream(t) ==
    /\ t.kind = "setupLocalMedia" /\ t.pc = "media"
    /\ \E ok \in Outcomes :
        /\ Charge(ok)
        /\ settled' = [settled EXCEPT ![t.u] =
                          IF ~ok THEN "media"
                          ELSE IF svc[t.u].isDisposed THEN "disposed" ELSE "fulfilled"]
        /\ svc' = IF ok /\ ~svc[t.u].isDisposed
                  THEN [svc EXCEPT ![t.u].localStream = TRUE] ELSE svc
    /\ tasks' = tasks \ {t}
    /\ UNCHANGED <<envVars, calls, history, provVars>>

\* createPeerConnection(onTrack): null on a disposed instance.
WebRTCService_createPeerConnection(u) ==
    /\ Drive
    /\ svc' = [svc EXCEPT ![u] = createPeerConnection(@)]
    /\ UNCHANGED <<userVars, nextCallId, faults, calls, history, provVars, settled, tasks>>

\* createCall(callerId, calleeId) up to await createOffer(): the two checks
\* in the order of the source, then the push key and onicecandidate.
WebRTCService_createCall(u, callee) ==
    /\ Drive
    /\ HasRoom(u)
    /\ callee \in Driven \ {u}
    /\ IF ~svc[u].peerConnection \/ svc[u].isDisposed \/ nextCallId \notin CallIds
       THEN /\ nextCallId \in CallIds
            /\ settled' = [settled EXCEPT ![u] =
                              IF ~svc[u].peerConnection THEN "notInitialized"
                              ELSE "disposed"]
            /\ UNCHANGED <<svc, tasks, nextCallId>>
       ELSE /\ svc' = [svc EXCEPT ![u].iceCall = nextCallId,
                                  ![u].iceList = "offerCandidates"]
            /\ nextCallId' = nextCallId + 1
            /\ tasks' = tasks \cup
                 {Fresh(Task("createCall", u, "offer", nextCallId, callee, 0, TRUE,
                             NoCall), tasks)}
            /\ UNCHANGED settled
    /\ UNCHANGED <<userVars, faults, calls, history, provVars>>

\* createOffer and setLocalDescription settle: on an instance disposed in the
\* meantime "Service disposed during offer creation" is thrown; otherwise
\* set(newCallRef, callData) is issued.
createCallOffer(t) ==
    /\ t.kind = "createCall" /\ t.pc = "offer"
    /\ IF svc[t.u].isDisposed
       THEN /\ settled' = [settled EXCEPT ![t.u] = "disposed"]
            /\ tasks' = tasks \ {t}
            /\ UNCHANGED <<calls, faults, svc>>
       ELSE \E ok \in Outcomes :
            /\ Charge(ok)
            /\ calls' = IF ok THEN [calls EXCEPT ![t.callId] = CallData(t.u, t.peer)]
                        ELSE calls
            /\ svc' = [svc EXCEPT ![t.u].signalingState = "have-local-offer"]
            /\ tasks' = (tasks \ {t}) \cup {[t EXCEPT !.pc = "set", !.ok = ok]}
            /\ UNCHANGED settled
    /\ UNCHANGED <<envVars, history, provVars>>

\* set() settles: a failed write throws; otherwise the listeners of the
\* record and of answerCandidates are registered, whatever isDisposed says,
\* and the call id is returned.
createCallSet(t) ==
    /\ t.kind = "createCall" /\ t.pc = "set"
    /\ settled' = [settled EXCEPT ![t.u] = IF t.ok THEN "fulfilled" ELSE "store"]
    /\ svc' = IF t.ok
              THEN [svc EXCEPT ![t.u].rtdbListeners =
                      @ \cup {<<"call", t.callId>>, <<"answerCandidates", t.callId>>}]
              ELSE svc
    /\ tasks' = tasks \ {t}
    /\ UNCHANGED <<envVars, faults, calls, history, provVars>>

\* answerCall(callId) up to await get(callRef): the two checks in the order
\* of the source.
WebRTCService_answerCall(u, c) ==
    /\ Drive
    /\ HasRoom(u)
    /\ IF ~svc[u].peerConnection \/ svc[u].isDisposed
       THEN /\ settled' = [settled EXCEPT ![u] =
                              IF ~svc[u].peerConnection THEN "notInitialized"
                              ELSE "disposed"]
            /\ UNCHANGED tasks
       ELSE /\ tasks' = tasks \cup
                 {Fresh(Task("serviceAnswer", u, "get", c, NoUser, 0, TRUE, NoCall),
                        tasks)}
            /\ UNCHANGED settled
    /\ UNCHANGED <<userVars, nextCallId, faults, calls, history, provVars, svc>>

\* get(callRef) settles: a failed read and a missing record throw, and so
\* does the assignment of onicecandidate when cleanup has dropped the
\* transport; otherwise setRemoteDescription(offer) is awaited.
serviceAnswerGet(t) ==
    /\ t.kind = "serviceAnswer" /\ t.pc = "get"
    /\ \E ok \in Outcomes :
        /\ Charge(ok)
        /\ IF ~ok \/ ~calls[t.callId].exists \/ ~svc[t.u].peerConnection
           THEN /\ settled' = [settled EXCEPT ![t.u] =
                                  IF ~ok THEN "store"
                                  ELSE IF ~calls[t.callId].exists THEN "notFound"
                                  ELSE "typeError"]
                /\ tasks' = tasks \ {t}
                /\ UNCHANGED svc
           ELSE /\ svc' = [svc EXCEPT ![t.u].iceCall = t.callId,
                                      ![t.u].iceList = "answerCandidates"]
                /\ tasks' = (tasks \ {t}) \cup
                      {[t EXCEPT !.pc = "neg", !.ok = calls[t.callId].offer]}
                /\ UNCHANGED settled
    /\ UNCHANGED <<envVars, calls, history, provVars>>

\* setRemoteDescription, createAnswer and setLocalDescription settle: a
\* failure throws, and so does an instance disposed in the meantime;
\* otherwise update(callRef, {answer, status: "CONNECTED"}) is issued.
serviceAnswerNegotiate(t) ==
    /\ t.kind = "serviceAnswer" /\ t.pc = "neg"
    /\ \E srd \in Outcomes, wr \in Outcomes :
        /\ srd \/ wr
        /\ Charge(srd /\ wr)
        /\ IF svc[t.u].isDisposed \/ ~t.ok \/ ~srd
           THEN /\ wr
                /\ settled' = [settled EXCEPT ![t.u] =
                                  IF svc[t.u].isDisposed THEN "disposed"
                                  ELSE "negotiation"]
                /\ tasks' = tasks \ {t}
                /\ UNCHANGED <<calls, svc>>
           ELSE /\ svc' = [svc EXCEPT ![t.u].remoteDescriptionSet = TRUE,
                                      ![t.u].signalingState = "stable"]
                /\ calls' = IF wr THEN [calls EXCEPT ![t.callId] = UpdateAnswer(@)]
                            ELSE calls
                /\ tasks' = (tasks \ {t}) \cup {[t EXCEPT !.pc = "update", !.ok = wr]}
                /\ UNCHANGED settled
    /\ UNCHANGED <<envVars, history, provVars>>

\* The catch-up read of answerCall on instance s: every candidate not yet
\* known is recorded and, through peerConnection?.addIceCandidate, handed to
\* the transport if there is one.
CatchUp(s, list) ==
    IF s.peerConnection THEN HandleSnapshot(s, list, FALSE)
    ELSE [s EXCEPT !.processedCandidates = @ \cup {JSONstringify(c) : c \in Range(list)}]

\* update() and get(offerCandidatesRef) settle: a failure throws; otherwise
\* the catch-up read is applied and the offerCandidates listener is
\* registered, whatever isDisposed says.
serviceAnswerUpdate(t) ==
    /\ t.kind = "serviceAnswer" /\ t.pc = "update"
    /\ \E rd \in Outcomes :
        /\ t.ok \/ rd
        /\ Charge(rd)
        /\ settled' = [settled EXCEPT ![t.u] =
                          IF ~t.ok \/ ~rd THEN "store" ELSE "fulfilled"]
        /\ svc' = IF ~t.ok \/ ~rd THEN svc
                  ELSE [svc EXCEPT ![t.u] =
                         [CatchUp(@, calls[t.callId].offerCandidates)
                            EXCEPT !.rtdbListeners =
                               @ \cup {<<"offerCandidates", t.callId>>}]]
    /\ tasks' = tasks \ {t}
    /\ UNCHANGED <<envVars, calls, history, provVars>>

\* The steps of the service driven directly.
Driving ==
    \/ \E u \in Driven, cid \in {NoCall} \cup CallIds : WebRTCService_cleanup(u, cid)
    \/ \E u \in Driven : WebRTCService_setupLocalMedia(u)
    \/ \E t \in tasks : setupLocalMediaStream(t)
    \/ \E u \in Driven : WebRTCService_createPeerConnection(u)
    \/ \E u \in Driven, callee \in Driven : WebRTCService_createCall(u, callee)
    \/ \E t \in tasks : createCallOffer(t)
    \/ \E t \in tasks : createCallSet(t)
    \/ \E u \in Driven, c \in CallIds : WebRTCService_answerCall(u, c)
    \/ \E t \in tasks : serviceAnswerGet(t)
    \/ \E t \in tasks : serviceAnswerNegotiate(t)
    \/ \E t \in tasks : serviceAnswerUpdate(t)
    \/ \E t \in tasks : cleanupGet(t)
    \/ \E t \in tasks : cleanupSetDoc(t)

\* Two instances as the providers hold them, driven directly, with failures.
InitService == InitDriven({}, MaxFaults, 0, 0, 0, 0, MaxDriving)

SpecService == InitService /\ [][Driving]_vars

\* The same instances with a transport that gathers one local candidate, and
\* no failures.
InitIce == InitDriven({}, 0, 0, 1, 0, 0, MaxDriving)

SpecIce == InitIce /\ [][Driving \/ \E u \in Driven : onicecandidate(u)]_vars

----------------------------------------------------------------------------
\* The steps of placing a call, of the provider's render and listeners, and
\* of the archive-and-remove part of cleanup.
Placing ==
    \/ \E u \in Users, callee \in Users : makeCall(u, callee)
    \/ \E t \in tasks : makeCallMedia(t)
    \/ \E t \in tasks : makeCallOffer(t)
    \/ \E t \in tasks : makeCallSet(t)
    \/ \E t \in tasks : cleanupGet(t)
    \/ \E t \in tasks : cleanupSetDoc(t)
    \/ \E u \in Users : render(u)
    \/ \E u \in Users, c \in CallIds : incomingCallAdded(u, c)
    \/ \E u \in Users : incomingCallValue(u)
    \/ \E u \in Users : activeCallMonitor(u)

\* The steps of answering and of rejecting a call.
Answering ==
    \/ \E u \in Users : answerCall(u)
    \/ \E t \in tasks : answerCallMedia(t)
    \/ \E t \in tasks : answerCallGet(t)
    \/ \E t \in tasks : answerCallNegotiate(t)
    \/ \E t \in tasks : answerCallUpdate(t)
    \/ \E u \in Users : rejectCall(u)
    \/ \E t \in tasks : rejectCallUpdate(t)
    \/ \E u \in Users, c \in CallIds : answerListener(u, c)
    \/ \E t \in tasks : answerListenerApplied(t)

Signalling == Placing \/ Answering

\* The steps of a local hangup.
Hangup ==
    \/ \E u \in Users : endCall(u)
    \/ \E t \in tasks : endCallUpdate(t)

\* The steps of candidate exchange.
Trickle ==
    \/ \E u \in Users : onicecandidate(u)
    \/ \E t \in tasks : processBufferedCandidates(t)
    \/ \E u \in Users, c \in CallIds : candidatesListener(u, c)
    \/ \E u \in Users, c \in CallIds : offerCandidatesListener(u, c)

\* The steps of push-to-talk.
Talking ==
    \/ \E u \in Users, isTalking \in BOOLEAN :
          toggleTalk(u, isTalking) /\ UNCHANGED isHoldingButton
    \/ \E t \in tasks : toggleTalkUpdate(t)

Next == Signalling \/ Hangup \/ Trickle

\* One call from A to B, with failures, a hangup and one candidate.
Init == InitWith(DialOne, MaxFaults, MaxHangups, 1)

Spec == Init /\ [][Next]_vars

\* One call from A to B with candidate exchange and a hangup, no failures.
InitCand == InitWith(DialOne, 0, MaxHangups, MaxCands)

SpecCand == InitCand /\ [][Next]_vars

\* B is called by A and, once connected, by C; nobody hangs up, nothing
\* fails, and the transports gather no candidates.
InitBusy == InitWith(DialBusy, 0, 0, 0)

SpecBusy == InitBusy /\ [][Signalling]_vars

\* B is called by A and dials A while its own status is not idle; nobody
\* answers, rejects or hangs up, and nothing fails.
InitAgain == InitWith(DialAgain, 0, 0, 0)

SpecAgain == InitAgain /\ [][Placing]_vars

\* One call from A to B with push-to-talk and failures; nobody hangs up and
\* the transports gather no candidates.
InitTalk == InitState(DialOne, MaxFaults, 0, 0, MaxTalks, 0)

SpecTalk == InitTalk /\ [][Signalling \/ Talking]_vars

\* The push-to-talk button of the page.
Pressing ==
    \/ \E u \in Users : handleTouchStart(u)
    \/ \E u \in Users : handleTouchEnd(u)
    \/ \E t \in tasks : toggleTalkUpdate(t)

\* One call from A to B in which the users press and release the button;
\* nothing fails, nobody hangs up and the transports gather no candidates.
InitPage == InitState(DialOne, 0, 0, 0, MaxPresses, 0)

SpecPage == InitPage /\ [][Signalling \/ Pressing]_vars

\* One call from A to B with one candidate, one toggleTalk and failures;
\* nobody hangs up.
InitWrites == InitState(DialOne, MaxFaults, 0, 1, 1, 0)

SpecWrites == InitWrites /\ [][Signalling \/ Trickle \/ Talking]_vars

\* B is called by A and by C at any time; nobody answers, rejects or hangs
\* up, and nothing fails.
InitBoth == InitWith(DialBoth, 0, 0, 0)

SpecBoth == InitBoth /\ [][Placing]_vars

\* One call from A to B whose callee page may run its auto-answer effect
\* again while the answer is in flight; nothing fails, nobody hangs up and
\* the transports gather no candidates.
InitTwice == InitState(DialOne, 0, 0, 0, 0, MaxRetriggers)

SpecTwice == InitTwice /\ [][Signalling]_vars

\* The same call with a transport that gathers one candidate.
InitTwiceIce == InitState(DialOne, 0, 0, 1, 0, MaxRetriggers)

SpecTwiceIce == InitTwiceIce /\ [][Signalling \/ Trickle]_vars

\* One call from A to B with candidate exchange and failures; nobody hangs up.
InitFlush == InitWith(DialOne, MaxFaults, 0, MaxCands)

SpecFlush == InitFlush /\ [][Signalling \/ Trickle]_vars

\* What the runtime is bound to do sooner or later: settle an awaited
\* operation, commit a render, deliver a snapshot to a listener.  What the
\* users do (dial, answer, reject, hang up) and what the transports gather
\* is left to them.
Fairness ==
    /\ WF_vars(\E t \in tasks : makeCallMedia(t))
    /\ WF_vars(\E t \in tasks : makeCallOffer(t))
    /\ WF_vars(\E t \in tasks : makeCallSet(t))
    /\ WF_vars(\E t \in tasks : answerCallMedia(t))
    /\ WF_vars(\E t \in tasks : answerCallGet(t))
    /\ WF_vars(\E t \in tasks : answerCallNegotiate(t))
    /\ WF_vars(\E t \in tasks : answerCallUpdate(t))
    /\ WF_vars(\E t \in tasks : cleanupGet(t))
    /\ WF_vars(\E t \in tasks : cleanupSetDoc(t))
    /\ WF_vars(\E t \in tasks : endCallUpdate(t))
    /\ WF_vars(\E t \in tasks : rejectCallUpdate(t))
    /\ WF_vars(\E t \in tasks : answerListenerApplied(t))
    /\ WF_vars(\E t \in tasks : processBufferedCandidates(t))
    /\ \A u \in Users :
        /\ WF_vars(render(u))
        /\ WF_vars(activeCallMonitor(u))
        /\ WF_vars(\E c \in CallIds : answerListener(u, c))
        /\ WF_vars(\E c \in CallIds : candidatesListener(u, c))
        /\ WF_vars(\E c \in CallIds : offerCandidatesListener(u, c))

\* One call from A to B with candidate exchange and a hangup, no failures,
\* under the runtime's fairness.
SpecLive == InitCand /\ [][Next]_vars /\ Fairness

\* One call from A to B in which one operation may fail; nobody hangs up and
\* the transports gather no candidates.  The incoming-call listeners are
\* delivered their snapshots like every other listener.
InitAccept == InitWith(DialOne, MaxFaults, 0, 0)

SpecAccept ==
    /\ InitAccept /\ [][Signalling]_vars /\ Fairness
    /\ \A u \in Users :
          /\ WF_vars(\E c \in CallIds : incomingCallAdded(u, c))
          /\ WF_vars(incomingCallValue(u))

\* One call from A to B with one candidate, in which one operation may fail;
\* nobody hangs up.
InitApply == InitWith(DialOne, MaxFaults, 0, 1)

SpecApply == InitApply /\ [][Signalling \/ Trickle]_vars /\ Fairness

----------------------------------------------------------------------------
\* C1: during one session every distinct remote candidate (by serialised
\* value) is handed to the transport at most once, whatever the listeners and
\* the catch-up read are delivered, duplicates included.
AppliedAtMostOnce == \A u \in Users : NoDup(svc[u].applied)

\* The caller's listener has been through an answerCandidates list that
\* holds one value twice, and has applied candidates.
DuplicateDelivered ==
    \E u \in Users, c \in CallIds :
        /\ <<"answerCandidates", c>> \in svc[u].rtdbListeners
        /\ ~NoDup(calls[c].answerCandidates)
        /\ svc[u].applied # <<>>
        /\ \A x \in Range(calls[c].answerCandidates) :
               JSONstringify(x) \in svc[u].processedCandidates

TerminalStatusKept ==
    [][\A c \in CallIds :
          /\ calls[c].exists /\ calls'[c].exists
          /\ calls[c].status \in {"ENDED", "REJECTED", "BUSY"}
          => calls'[c].status = calls[c].status]_vars

\* C4: when the incoming listener of a callee that is not idle is handed an
\* OFFERING call other than its own, that call's record gets status BUSY and
\* the callee's session (status, calls, monitor, service) stays as it is.
BusyCalleeAnswersBusy ==
    [][\A u \in Users : \A c \in deliveredBusy'[u] \ deliveredBusy[u] :
          /\ calls'[c].status = "BUSY"
          /\ callStatus'[u] = callStatus[u]
          /\ activeCall'[u] = activeCall[u]
          /\ incomingCall'[u] = incomingCall[u]
          /\ monitor'[u] = monitor[u]
          /\ svc'[u] = svc[u]]_vars

\* C5: the cleanups one orchestrator runs for a call never write a second
\* archival record for it.
NoSecondArchive ==
    \A c \in CallIds, u \in Users :
        Cardinality({i \in 1..Len(history[c]) : history[c][i].archivedBy = u}) <= 1

\* C6: once a connected call has been ended through endCall and both parties
\* are through with it (nobody holds or monitors it, nothing is in flight),
\* it has exactly one archival record and no live record.
ArchivedOnceAfterEndCall ==
    \A e \in endCalls :
        /\ e.ok /\ e.was = "CONNECTED"
        /\ tasks = {}
        /\ \A u \in Users : activeCall[u] # e.callId /\ monitor[u] # e.callId
        => Len(history[e.callId]) = 1 /\ ~calls[e.callId].exists

\* C7: a makeCall that is invoked while the caller's local status is not
\* idle does not go ahead: the dial is not taken up.
NoCallPlacedWhileEngaged ==
    [][\A d \in dial \ dial' : callStatus[d[1]] = "ENDED"]_vars

\* C8: when the status write of an endCall with an active call settles,
\* fulfilled or rejected, the local cleanup is complete: status idle, no
\* active call, and a fresh service with no subscriptions and no negotiation
\* state.
EndCallAlwaysCleansUp ==
    [][\A t \in tasks \ tasks' :
          t.kind = "endCall"
          => /\ callStatus'[t.u] = "ENDED"
             /\ activeCall'[t.u] = NoCall
             /\ svc'[t.u] = NewService]_vars

\* C9: rejectCall writes REJECTED to the record of the incoming call (when
\* the store takes the write), touches neither the answer nor any service
\* nor the archive, and when its write has settled the callee has no incoming
\* call and is idle.
RejectCallFrame ==
    [][/\ \A t \in tasks' \ tasks :
             t.kind = "rejectCall"
             => /\ t.ok /\ calls[t.callId].exists
                      => calls'[t.callId].status = "REJECTED"
                /\ calls'[t.callId].answer = calls[t.callId].answer
                /\ svc' = svc /\ history' = history
       /\ \A t \in tasks \ tasks' :
             t.kind = "rejectCall"
             => /\ incomingCall'[t.u] = NoCall
                /\ callStatus'[t.u] = "ENDED"
                /\ svc' = svc /\ calls' = calls]_vars

\* A callee has rejected: the record says REJECTED and holds no answer, the
\* callee is idle with an untouched service and nothing in flight.
RejectedAndIdle ==
    \E u \in Users, c \in CallIds :
        /\ calls[c].exists /\ calls[c].calleeId = u
        /\ calls[c].status = "REJECTED" /\ ~calls[c].answer
        /\ incomingCall[u] = NoCall /\ callStatus[u] = "ENDED"
        /\ svc[u] = NewService
        /\ ~\E t \in tasks : t.u = u

\* The callee's session on call c is live and candidate k of the offerer's
\* list has not been handed to its transport.
OfferCandidatePending(u, c, k) ==
    /\ svc[u].iceCall = c /\ svc[u].iceList = "answerCandidates"
    /\ k \in Range(calls[c].offerCandidates)
    /\ k \notin Range(svc[u].applied)

\* C10: every candidate in the offerer's list is eventually applied by the
\* callee's transport, unless the callee's session is disposed first.
OfferCandidatesReachCallee ==
    \A u \in {"B"}, c \in {1}, k \in 1..MaxCands :
        OfferCandidatePending(u, c, k)
            ~> (k \in Range(svc[u].applied) \/ svc[u].iceCall # c)

\* C11: toggleTalk(b) with an active call switches the local audio tracks to
\* b in the same step that issues the activeSpeakerId write, whatever becomes
\* of the write: a write the store takes sets activeSpeakerId to the user's
\* own id for b = true and to none for b = false, a failed write changes no
\* record, and the settling of the write leaves the tracks as they are.
TalkSwitchesAudioFirst ==
    [][/\ \A t \in tasks' \ tasks :
             t.kind = "toggleTalk"
             => /\ t.peer \in {t.u, NoUser}
                /\ svc'[t.u].audioEnabled = (t.peer = t.u)
                /\ t.ok /\ (variant = "rtdb" \/ calls[t.callId].exists)
                      => calls'[t.callId].activeSpeakerId = t.peer
                /\ ~t.ok => calls' = calls
       /\ \A t \in tasks \ tasks' :
             t.kind = "toggleTalk" => svc' = svc /\ calls' = calls]_vars

\* A user is transmitting while the write that should announce it failed:
\* the tracks are on and the record names nobody as the speaker.
TalkingWithFailedWrite ==
    \E u \in Users, t \in tasks :
        /\ t.kind = "toggleTalk" /\ t.u = u /\ t.peer = u /\ ~t.ok
        /\ svc[u].audioEnabled
        /\ calls[t.callId].exists /\ calls[t.callId].activeSpeakerId = NoUser

\* The record of call c says the call is over, or is gone.
Terminated(c) ==
    \/ ~calls[c].exists
    \/ calls[c].status \in {"ENDED", "REJECTED", "BUSY"}

\* C12: a party that has a call active whose record has been given a
\* terminal status or has been removed eventually lets go of the call and is
\* idle.
TerminationObserved ==
    \A u \in {"A", "B"}, c \in {1} :
        (activeCall[u] = c /\ Terminated(c))
            ~> (activeCall[u] # c /\ callStatus[u] = "ENDED")

\* The status changes a live record may go through.
StatusPaths ==
    {<<"OFFERING", "CONNECTED">>, <<"CONNECTED", "ENDED">>, <<"OFFERING", "ENDED">>,
     <<"OFFERING", "REJECTED">>, <<"OFFERING", "BUSY">>}

\* C13: every step that changes the status of a live call record takes it
\* along OFFERING -> CONNECTED -> ENDED, OFFERING -> ENDED, OFFERING ->
\* REJECTED or OFFERING -> BUSY.
StatusMovesForward ==
    [][\A c \in CallIds :
          /\ calls[c].exists /\ calls'[c].exists
          /\ calls'[c].status # calls[c].status
          => <<calls[c].status, calls'[c].status>> \in StatusPaths]_vars

\* C14: set(newCallRef, {offer, ...}) is issued only for a record that does
\* not exist yet, update(callRef, {answer, ...}) only for a record that holds
\* no answer yet, and a record that holds an offer keeps it while it exists.
OfferAndAnswerWrittenOnce ==
    [][/\ \A t \in tasks :
             /\ t.kind = "makeCall" /\ t.pc = "offer"
                   /\ [t EXCEPT !.pc = "set", !.ok = TRUE] \in tasks'
                => ~calls[t.callId].exists
             /\ t.kind = "answerCall" /\ t.pc = "neg"
                   /\ [t EXCEPT !.pc = "update", !.ok = TRUE] \in tasks'
                => ~calls[t.callId].answer
       /\ \A c \in CallIds :
             calls[c].exists /\ calls[c].offer /\ calls'[c].exists => calls'[c].offer]_vars

\* C15: when getUserMedia fails in makeCall or answerCall on a live
\* instance, the same step returns the local status to idle, writes nothing
\* to the store, and settles the operation's promise as rejected.
MediaFailureSurfaced ==
    [][\A t \in tasks \ tasks' :
          /\ t.kind \in {"makeCall", "answerCall"} /\ t.pc = "media"
          /\ ~t.disposed /\ faults' < faults
          => /\ callStatus'[t.u] = "ENDED"
             /\ activeCall'[t.u] = NoCall /\ incomingCall'[t.u] = NoCall
             /\ calls' = calls
             /\ settled'[t.u] # "fulfilled"]_vars

\* The call state of the providers and the subscriptions of their services.
Session ==
    <<callStatus, activeCall, incomingCall, monitor,
      [u \in Users |-> svc[u].rtdbListeners]>>

\* C16: when the write of the initial record fails, makeCall ends idle, with
\* no active call, no monitor and no listener, and writes nothing more; a
\* failed candidate push and a failed write of activeSpeakerId, at issue
\* and when it settles, change neither the store nor the call state nor the
\* subscriptions.
InitialWriteFatalOthersNot ==
    [][/\ \A t \in tasks \ tasks' :
             t.kind = "makeCall" /\ t.pc = "set" /\ ~t.ok
             => /\ callStatus'[t.u] = "ENDED" /\ activeCall'[t.u] = NoCall
                /\ monitor'[t.u] = NoCall /\ svc'[t.u].rtdbListeners = {}
                /\ calls' = calls
       /\ gatherLimit' < gatherLimit /\ faults' < faults
             => Session' = Session /\ calls' = calls
       /\ \A t \in (tasks' \ tasks) \cup (tasks \ tasks') :
             t.kind = "toggleTalk" /\ ~t.ok
             => Session' = Session /\ calls' = calls]_vars

\* A candidate of a connected party was lost to a failed push and the call
\* goes on: both parties are connected to the record and its lists are empty.
CandidateLostCallGoesOn ==
    \E u \in {"A", "B"} :
        /\ svc[u].gathered = 1 /\ svc[u].iceCall # NoCall
        /\ faults < MaxFaults
        /\ calls[svc[u].iceCall].exists
        /\ calls[svc[u].iceCall].offerCandidates = <<>>
        /\ calls[svc[u].iceCall].answerCandidates = <<>>
        /\ activeCall["A"] = svc[u].iceCall /\ activeCall["B"] = svc[u].iceCall
        /\ callStatus["A"] = "CONNECTED" /\ callStatus["B"] = "CONNECTED"

\* C17: createCall, answerCall and setupLocalMedia called on a disposed
\* instance settle with a disposed error, write nothing to the store, leave
\* no continuation behind and register no listener; and a disposed instance
\* stays disposed.
DisposedInstanceRefuses ==
    [][\A u \in Driven :
          svc[u].isDisposed
          => /\ svc'[u].isDisposed
             /\ \/ \E callee \in Driven : WebRTCService_createCall(u, callee)
                \/ \E c \in CallIds : WebRTCService_answerCall(u, c)
                \/ WebRTCService_setupLocalMedia(u)
                => /\ settled'[u] = "disposed"
                   /\ calls' = calls /\ tasks' = tasks
                   /\ svc'[u].rtdbListeners = svc[u].rtdbListeners]_vars

\* C18: cleanup() leaves its instance disposed, without listeners, transport
\* or media and with the negotiation state cleared; and a failed read, a
\* failed archival write or a failed removal ends cleanup without changing
\* how any operation has settled, any instance or any provider state.
CleanupSilentAndComplete ==
    [][/\ \A u \in Driven :
             (\E cid \in {NoCall} \cup CallIds : WebRTCService_cleanup(u, cid))
             => /\ svc'[u].isDisposed /\ svc'[u].rtdbListeners = {}
                /\ ~svc'[u].peerConnection /\ ~svc'[u].localStream
                /\ ~svc'[u].remoteDescriptionSet /\ ~svc'[u].settingRemoteDescription
                /\ svc'[u].candidateQueue = <<>> /\ svc'[u].processedCandidates = {}
                /\ settled' = settled
       /\ \A t \in tasks \ tasks' :
             t.kind = "cleanup" /\ faults' < faults
             => /\ tasks' = tasks \ {t}
                /\ settled' = settled /\ svc' = svc /\ provVars' = provVars]_vars

\* cleanup(1) on the instance that created call 1 has run into a failure and
\* is over: the instance is torn down, the record is still there, and
\* nothing was thrown.
CleanupFailedQuietly ==
    \E u \in Driven :
        /\ driving = MaxDriving - 2 /\ tasks = {} /\ faults < MaxFaults
        /\ svc[u].isDisposed /\ svc[u].rtdbListeners = {} /\ ~svc[u].peerConnection
        /\ calls[1].exists /\ calls[1].callerId = u
        /\ settled[u] = "fulfilled"

\* C19: when the incoming listener of u is handed OFFERING calls, an idle u
\* ends up RINGING for one of them and every other one of them is marked
\* BUSY; a u that is not idle keeps its status and its calls, and every one
\* of them that is not its own is marked BUSY.
OfferingNotificationHandled ==
    [][\A u \in Users :
          LET N == IF variant = "fs"
                   THEN {c \in CallIds : incomingCallAdded(u, c)}
                   ELSE IF incomingCallValue(u) THEN Offering(u) ELSE {}
          IN  N # {}
              => IF callStatus[u] = "ENDED"
                 THEN /\ callStatus'[u] = "RINGING" /\ incomingCall'[u] \in N
                      /\ \A c \in N \ {incomingCall'[u]} : calls'[c].status = "BUSY"
                 ELSE /\ callStatus'[u] = callStatus[u]
                      /\ incomingCall'[u] = incomingCall[u]
                      /\ activeCall'[u] = activeCall[u]
                      /\ \A c \in N \ {incomingCall[u], activeCall[u]} :
                            calls'[c].status = "BUSY"]_vars

\* C20: the active-call monitor sets CONNECTED only for a user whose local
\* status is OFFERING, and not a second time before the next render.
ConnectedFiresOnce ==
    [][\A u \in Users :
          connectedFired'[u] > connectedFired[u]
          => callStatus[u] = "OFFERING" /\ connectedFired[u] = 0]_vars

\* The continuations of u's answer listener that are suspended.
ApplyingAnswer(u) == {t \in tasks : t.kind = "applyAnswer" /\ t.u = u}

\* C21: a service has at most one application of the answer in flight; while
\* setRemoteDescription(answer) is awaited the guard is held, no remote
\* description is set and the transport is in have-local-offer; and the
\* application that succeeds starts from there, so it is the first.
RemoteDescriptionAppliedOnce ==
    /\ [](\A u \in Users :
            /\ Cardinality(ApplyingAnswer(u)) <= 1
            /\ \A t \in ApplyingAnswer(u) :
                  /\ svc[u].settingRemoteDescription
                  /\ t.pc = "srd" => /\ ~svc[u].remoteDescriptionSet
                                     /\ svc[u].signalingState = "have-local-offer")
    /\ [][\A t \in tasks \ tasks' :
             t.kind = "applyAnswer" /\ t.pc = "srd" /\ svc'[t.u].remoteDescriptionSet
             => /\ ~svc[t.u].remoteDescriptionSet
                /\ svc[t.u].signalingState = "have-local-offer"
                /\ svc'[t.u].signalingState = "stable"]_vars

\* The answer is being applied and the record, still holding it, can be
\* delivered to the listener again.
AnswerNotifiedWhileApplying ==
    \E u \in Users, t \in tasks :
        /\ t.kind = "applyAnswer" /\ t.u = u /\ t.pc = "srd"
        /\ <<"call", t.callId>> \in svc[u].rtdbListeners
        /\ calls[t.callId].exists /\ calls[t.callId].answer
        /\ svc[u].settingRemoteDescription

\* C22: when setRemoteDescription fails, for the caller's answer listener or
\* in the callee's answerCall, the same step leaves remoteDescriptionSet and
\* settingRemoteDescription false and the party idle with no call.
RemoteDescriptionFailureFatal ==
    [][\A t \in tasks \ tasks' :
          /\ faults' < faults /\ ~t.disposed
          /\ \/ t.kind = "applyAnswer" /\ t.pc = "srd"
             \/ t.kind = "answerCall" /\ t.pc = "neg" /\ t.ok
                   /\ \A x \in tasks' : x.kind = "answerCall" => x.n # t.n \/ x.u # t.u
          => /\ ~svc'[t.u].remoteDescriptionSet
             /\ ~svc'[t.u].settingRemoteDescription
             /\ callStatus'[t.u] = "ENDED"
             /\ activeCall'[t.u] = NoCall /\ incomingCall'[t.u] = NoCall]_vars

\* The negotiation state of instance s: the two flags, the queue and the
\* dedup set.
Negotiation(s) ==
    <<s.remoteDescriptionSet, s.settingRemoteDescription, s.candidateQueue,
      s.processedCandidates>>

\* C23: a continuation of createCall, answerCall or setupLocalMedia that
\* resumes on a disposed instance writes nothing to the store, hands nothing
\* to the transport and leaves the flags, the queue and the dedup set alone.
DisposedContinuationsNoOp ==
    [][\A t \in tasks \ tasks' :
          /\ t.kind \in {"createCall", "serviceAnswer", "setupLocalMedia"}
          /\ svc[t.u].isDisposed
          => /\ calls' = calls
             /\ svc'[t.u].applied = svc[t.u].applied
             /\ svc'[t.u].signalingState = svc[t.u].signalingState
             /\ Negotiation(svc'[t.u]) = Negotiation(svc[t.u])]_vars

\* C24: an instance on which cleanup has run has no store listener attached,
\* whenever cleanup came.
NoListenerAfterCleanup ==
    [](\A u \in Driven : svc[u].isDisposed => svc[u].rtdbListeners = {})

\* C25: createPeerConnection leaves the two flags false and the queue and
\* the dedup set empty, and on a disposed instance they are and stay so.
NegotiationStateReset ==
    /\ [](\A u \in Driven :
            svc[u].isDisposed => Negotiation(svc[u]) = <<FALSE, FALSE, <<>>, {}>>)
    /\ [][\A u \in Driven :
             WebRTCService_createPeerConnection(u) /\ ~svc[u].isDisposed
             => Negotiation(svc'[u]) = <<FALSE, FALSE, <<>>, {}>>]_vars

\* C26: the step that sets remoteDescriptionSet on an instance is the one in
\* which its processBufferedCandidates starts (the continuation of the
\* answer listener), a flush starts in no other step, and an instance whose
\* remote description is set and whose guard is free has an empty queue.
FlushedOnceAfterRemoteDescription ==
    /\ [][\A u \in Users :
             /\ ~svc[u].remoteDescriptionSet /\ svc'[u].remoteDescriptionSet
                => \E t \in tasks \ tasks' :
                      t.kind = "applyAnswer" /\ t.u = u /\ t.pc = "srd"
             /\ \A t \in tasks' \ tasks :
                   t.kind = "applyAnswer" /\ t.u = u /\ t.pc = "flush" /\ t.n = 1
                   => ~svc[u].remoteDescriptionSet /\ svc'[u].remoteDescriptionSet]_vars
    /\ [](\A u \in Users :
            svc[u].remoteDescriptionSet /\ ~svc[u].settingRemoteDescription
            => svc[u].candidateQueue = <<>>)

\* C27: a rejected addIceCandidate is logged and skipped.  In the flush
\* the next queued candidate is still handed to the transport, in queue
\* order, or after the last one the queue is cleared and the guard released;
\* in a live snapshot every new candidate is still recorded.  Either way one
\* line is logged, and remoteDescriptionSet, the call statuses and the call
\* records stay as they are.
CandidateFailureSkipped ==
    [][/\ \A t \in tasks :
             processBufferedCandidates(t) /\ faults' < faults
             => LET s == svc[t.u] IN
                /\ IF t.n < Len(s.candidateQueue)
                   THEN /\ svc'[t.u].applied = Append(s.applied, s.candidateQueue[t.n + 1])
                        /\ svc'[t.u].candidateQueue = s.candidateQueue
                        /\ svc'[t.u].settingRemoteDescription = s.settingRemoteDescription
                        /\ \E x \in tasks' \ tasks :
                              x.kind = "applyAnswer" /\ x.u = t.u /\ x.pc = "flush"
                              /\ x.n = t.n + 1
                   ELSE /\ svc'[t.u].applied = s.applied
                        /\ svc'[t.u].candidateQueue = <<>>
                        /\ ~svc'[t.u].settingRemoteDescription
                /\ svc'[t.u].logged = s.logged + 1
                /\ svc'[t.u].remoteDescriptionSet = s.remoteDescriptionSet
                /\ calls' = calls /\ callStatus' = callStatus
                /\ activeCall' = activeCall
       /\ \A u \in Users, c \in CallIds :
             (candidatesListener(u, c) \/ offerCandidatesListener(u, c))
             /\ faults' < faults
             => /\ svc'[u].logged = svc[u].logged + 1
                /\ svc'[u].remoteDescriptionSet = svc[u].remoteDescriptionSet
                /\ svc'[u].settingRemoteDescription = svc[u].settingRemoteDescription
                /\ svc'[u].candidateQueue = svc[u].candidateQueue
                /\ <<"answerCandidates", c>> \in svc[u].rtdbListeners
                   => \A x \in Range(calls[c].answerCandidates) :
                         JSONstringify(x) \in svc'[u].processedCandidates
                /\ <<"offerCandidates", c>> \in svc[u].rtdbListeners
                   => \A x \in Range(calls[c].offerCandidates) :
                         JSONstringify(x) \in svc'[u].processedCandidates
                /\ calls' = calls /\ callStatus' = callStatus
                /\ activeCall' = activeCall]_vars

\* C28: on an instance that has not been cleaned up, every remote candidate
\* handed to the transport or waiting in candidateQueue has its
\* serialisation in processedCandidates, and no candidate is in
\* candidateQueue twice.
ProcessedCoversAppliedAndQueued ==
    \A u \in Users :
        ~svc[u].isDisposed
        => /\ \A x \in Range(svc[u].applied) \cup Range(svc[u].candidateQueue) :
                JSONstringify(x) \in svc[u].processedCandidates
           /\ \A i, j \in 1..Len(svc[u].candidateQueue) :
                svc[u].candidateQueue[i] = svc[u].candidateQueue[j] => i = j

\* An instance is flushing a queue of two candidates: the transport has the
\* first, and both are recorded.
CandidateQueuedAndApplied ==
    \E u \in Users :
        /\ ~svc[u].isDisposed /\ svc[u].settingRemoteDescription
        /\ Len(svc[u].candidateQueue) = 2
        /\ svc[u].applied = <<svc[u].candidateQueue[1]>>
        /\ Cardinality(svc[u].processedCandidates) = 2

StoredStatuses == {"OFFERING", "CONNECTED", "ENDED", "REJECTED", "BUSY", "NONE"}

\* C30 as stated: a stored status is one of OFFERING, CONNECTED, ENDED,
\* REJECTED, BUSY, never RINGING, and while a callee is locally RINGING for a
\* call whose answer has not been written, the status of its record is
\* OFFERING.
StatusOfferingWhileRinging ==
    /\ \A c \in CallIds : calls[c].status \in StoredStatuses
    /\ \A u \in Users, c \in CallIds :
          callStatus[u] = "RINGING" /\ incomingCall[u] = c /\ ~calls[c].answer
          => calls[c].status = "OFFERING"

\* C30 as amended: a stored status is one of OFFERING, CONNECTED, ENDED,
\* REJECTED, BUSY, never RINGING, and while a callee is locally RINGING for a
\* call whose answer has not been written, the status of its record is
\* OFFERING unless the call has been ended or rejected (or its record
\* removed) in the meantime.
StatusNeverRinging ==
    /\ \A c \in CallIds : calls[c].status \in StoredStatuses
    /\ \A u \in Users, c \in CallIds :
          callStatus[u] = "RINGING" /\ incomingCall[u] = c /\ ~calls[c].answer
          => calls[c].status \in {"OFFERING", "ENDED", "REJECTED", "NONE"}

\* A callee rings for a call whose record is OFFERING and unanswered.
CalleeRingsOnOffering ==
    \E u \in Users, c \in CallIds :
        /\ callStatus[u] = "RINGING" /\ incomingCall[u] = c
        /\ calls[c].exists /\ calls[c].calleeId = u
        /\ calls[c].status = "OFFERING" /\ ~calls[c].answer

\* The users that place the calls of the plan DialOne, and those they call.
Callers == {d[1] : d \in DialOne}
Callees == {d[2] : d \in DialOne}

\* C31: offerCandidates of a call grows only by the onicecandidate of the
\* caller's transport and answerCandidates only by that of the callee's,
\* one gathered candidate at a time; only a caller holds a listener on
\* answerCandidates and only a callee one on offerCandidates; and what a
\* party newly records as a remote candidate is in the other party's list.
CandidateListsOwned ==
    /\ [][\A c \in CallIds :
            /\ Len(calls'[c].offerCandidates) > Len(calls[c].offerCandidates)
               => \E u \in Callers :
                     /\ onicecandidate(u) /\ svc[u].iceCall = c
                     /\ \E k \in 1..svc'[u].gathered :
                           calls'[c].offerCandidates
                              = Append(calls[c].offerCandidates, k)
            /\ Len(calls'[c].answerCandidates) > Len(calls[c].answerCandidates)
               => \E u \in Callees :
                     /\ onicecandidate(u) /\ svc[u].iceCall = c
                     /\ \E k \in 1..svc'[u].gathered :
                           calls'[c].answerCandidates
                              = Append(calls[c].answerCandidates, k)]_vars
    /\ [](\A u \in Users, c \in CallIds :
            /\ <<"answerCandidates", c>> \in svc[u].rtdbListeners => u \in Callers
            /\ <<"offerCandidates", c>> \in svc[u].rtdbListeners => u \in Callees)
    /\ [][\A u \in Users :
            \A x \in svc'[u].processedCandidates \ svc[u].processedCandidates :
               \E c \in CallIds :
                  \/ /\ u \in Callers
                     /\ \E y \in Range(calls[c].answerCandidates) : x = JSONstringify(y)
                  \/ /\ u \in Callees
                     /\ \E y \in Range(calls[c].offerCandidates) : x = JSONstringify(y)]_vars

\* Both parties have pushed a candidate to their list of the call and each
\* has taken the other's from it.
CandidatesCrossOver ==
    \E c \in CallIds, a \in Callers, b \in Callees :
        /\ calls[c].offerCandidates # <<>> /\ calls[c].answerCandidates # <<>>
        /\ <<"answerCandidates", c>> \in svc[a].rtdbListeners
        /\ <<"offerCandidates", c>> \in svc[b].rtdbListeners
        /\ svc[a].processedCandidates # {} /\ svc[b].processedCandidates # {}

\* The call records of u's own making that are OFFERING.
OwnOffering(u) ==
    {c \in CallIds : calls[c].exists /\ calls[c].callerId = u
                     /\ calls[c].status = "OFFERING"}

\* C32: no user is ringing for an incoming call while a record of a call it
\* placed is OFFERING, and no user has two records of its own in OFFERING.
OneSessionAtATime ==
    \A u \in Users :
        /\ ~(callStatus[u] = "RINGING" /\ incomingCall[u] # NoCall
             /\ OwnOffering(u) # {})
        /\ Cardinality(OwnOffering(u)) <= 1

\* C33: no step writes BUSY to the record of a call while its callee is
\* RINGING for that call or has an answerCall for it in flight.
NoBusyToOwnCall ==
    [][\A c \in CallIds :
          calls[c].status # "BUSY" /\ calls'[c].status = "BUSY"
          => LET u == calls[c].calleeId IN
             /\ ~(callStatus[u] = "RINGING" /\ incomingCall[u] = c)
             /\ ~\E t \in tasks : t.kind = "answerCall" /\ t.u = u /\ t.callId = c]_vars

\* C34: a record comes into being only while the createCall that owns its
\* id is in flight; a record that cleanup has removed is not created again
\* by any later write.
RemovedRecordStaysRemoved ==
    [][\A c \in CallIds :
          ~calls[c].exists /\ calls'[c].exists
          => \E t \in tasks : t.kind \in {"makeCall", "createCall"} /\ t.callId = c]_vars

\* The callee u of call c has had an answerCall settle and is idle again.
IdleAfterAccept(u, c) ==
    /\ calls[c].calleeId = u /\ settled[u] # "none"
    /\ callStatus[u] = "ENDED" /\ activeCall[u] = NoCall /\ incomingCall[u] = NoCall
    /\ ~\E t \in tasks : t.u = u /\ t.kind = "answerCall"

\* C35: when an answerCall has failed and left the callee idle while the
\* record of the call is still OFFERING or CONNECTED, the record is
\* eventually given a terminal status or removed (or the callee is back in
\* the call).
FailedAcceptEndsCall ==
    \A u \in Users, c \in CallIds :
        (IdleAfterAccept(u, c) /\ ~Terminated(c))
        ~> (Terminated(c) \/ ~IdleAfterAccept(u, c))

\* The caller u listens to the record of call c, which holds an answer.
AnswerWaiting(u, c) ==
    /\ <<"call", c>> \in svc[u].rtdbListeners
    /\ calls[c].exists /\ calls[c].answer

\* C36: a caller session that is not cleaned up and whose record holds an
\* answer eventually has remoteDescriptionSet true and an empty
\* candidateQueue.
AnswerEventuallyApplied ==
    \A u \in Users, c \in CallIds :
        AnswerWaiting(u, c)
        ~> \/ ~AnswerWaiting(u, c)
           \/ svc[u].remoteDescriptionSet /\ svc[u].candidateQueue = <<>>

\* The answerCall continuation t ends in this step.
AcceptEnds(t) ==
    /\ t \in tasks /\ t.kind = "answerCall" /\ t \notin tasks'
    /\ ~\E s \in tasks' \ tasks : s.kind = "answerCall" /\ s.u = t.u

\* It ends in its catch block: before the write was issued, with the write
\* failed, or with a failure injected in this step.
AcceptFails(t) ==
    AcceptEnds(t) /\ (t.pc # "update" \/ ~t.ok \/ faults' # faults)

\* C37: the callee's local status becomes CONNECTED only in the step that
\* ends an answerCall whose update(callRef, {answer, status: CONNECTED}) has
\* succeeded, or when the monitor of its active call reads a record that
\* holds the answer and CONNECTED; that continuation exists only from the
\* step that wrote the answer and CONNECTED to the record; and an answerCall
\* that fails leaves the callee not CONNECTED.
CalleeConnectedAfterAnswerWritten ==
    /\ [][\A u \in Users :
            callStatus[u] # "CONNECTED" /\ callStatus'[u] = "CONNECTED"
            => \/ \E t \in tasks :
                    /\ t.u = u /\ t.pc = "update" /\ t.ok
                    /\ AcceptEnds(t) /\ ~AcceptFails(t)
                    /\ activeCall'[u] = t.callId
               \/ /\ activeCall[u] # NoCall
                  /\ calls[activeCall[u]].answer
                  /\ calls[activeCall[u]].status = "CONNECTED"]_vars
    /\ [][\A t \in tasks' \ tasks :
            /\ t.kind = "answerCall" /\ t.pc = "update" /\ t.ok
            /\ [t EXCEPT !.disposed = FALSE] \notin tasks
            => /\ calls'[t.callId].exists /\ calls'[t.callId].answer
               /\ calls'[t.callId].status = "CONNECTED"
               /\ calls' # calls \/ calls[t.callId].answer]_vars
    /\ [][\A t \in tasks : AcceptFails(t) => callStatus'[t.u] # "CONNECTED"]_vars

\* The callee is CONNECTED in the call whose record holds its answer.
CalleeConnectedOnAnswer ==
    \E u \in Users, c \in CallIds :
        /\ callStatus[u] = "CONNECTED" /\ activeCall[u] = c
        /\ calls[c].exists /\ calls[c].calleeId = u
        /\ calls[c].answer /\ calls[c].status = "CONNECTED"
        /\ settled[u] = "fulfilled"

\* C38: a live record whose status is CONNECTED holds the offer and the
\* answer, and one whose status is OFFERING holds the offer and no answer.
StatusMatchesDescriptions ==
    \A c \in CallIds :
        calls[c].exists
        => /\ calls[c].status = "CONNECTED" => calls[c].offer /\ calls[c].answer
           /\ calls[c].status = "OFFERING" => calls[c].offer /\ ~calls[c].answer

\* The party u is transmitting: its button is held and its tracks are enabled.
Transmitting(u) == isHoldingButton[u] /\ svc[u].audioEnabled

\* C39: activeSpeakerId of a call record is null or one of the two parties,
\* and no step clears the mark of a party that is transmitting before and
\* after the step: the mark is cleared only by the release of the party it
\* names.
SpeakerClearedByOwner ==
    /\ [](\A c \in CallIds :
            calls[c].activeSpeakerId \in {NoUser} \cup Callers \cup Callees)
    /\ [][\A c \in CallIds, u \in Users :
            /\ calls[c].exists /\ calls'[c].exists
            /\ calls[c].activeSpeakerId = u
            /\ calls'[c].activeSpeakerId = NoUser
            => ~(Transmitting(u) /\ Transmitting(u)')]_vars

====
